---- MODULE Spec2Model ----
(***************************************************************************)
(* Digital-twin railway safety verifier: the entity state machines        *)
(* (Track, Signal, Gate), the TwinState mirror with its clone, the         *)
(* ConflictDetector, the SafetyVerifier and the three controllers.         *)
(*                                                                         *)
(* Python objects that can be aliased (the TwinState dictionaries and the  *)
(* snapshot dictionaries stored in them) live in an explicit heap, so that *)
(* copying and in-place edits are modelled by what they do to references.  *)
(* Timestamps (datetime.now()) are not modelled.  Distances and ETAs are   *)
(* floats in the source and integers here.                                 *)
(***************************************************************************)
EXTENDS Integers, Sequences, FiniteSets, TLC

\* ------------------------------------------------------------------ bounds
MaxHist == 5        \* longest entity history explored
MaxLog == 2         \* longest controller command log explored
MaxCalls == 2       \* most verify_* calls explored in one behaviour
MaxEdits == 3       \* most steps explored after a clone was taken

\* --------------------------------------------------------------- constants
None == "None"
NoTime == -1
DANGER_ZONE == 500
MIN_SEPARATION == 120
MIN_CLEARANCE_TIME == 120
INITIAL_DISTANCE == 9999

TrackOrder == <<"P1", "P2">>
TrackIds == {TrackOrder[i] : i \in DOMAIN TrackOrder}
SignalOrder == <<"S1", "S2">>
SignalIds == {SignalOrder[i] : i \in DOMAIN SignalOrder}
SignalTrack == [S1 |-> "P1", S2 |-> "P2"]
GateOrder == <<"G1">>
GateIds == {GateOrder[i] : i \in DOMAIN GateOrder}
TrainOrder == <<"T001", "T002">>
TrainIds == {TrainOrder[i] : i \in DOMAIN TrainOrder}

TrackState == {"FREE", "RESERVED", "OCCUPIED", "CLEARING"}
SignalState == {"RED", "YELLOW", "GREEN"}
GateState == {"OPEN", "CLOSING", "CLOSED"}

\* inputs explored
Etas == {180, 250}
Distances == {450, 500, 501}
SignalNames == SignalState \cup {"BLUE"}
GateNames == GateState \cup {"AJAR"}
UnknownId == "X9"

Kinds == {"trains", "tracks", "signals", "gates"}
KindOrder(k) ==
    CASE k = "trains" -> TrainOrder
      [] k = "tracks" -> TrackOrder \o <<UnknownId>>
      [] k = "signals" -> SignalOrder \o <<UnknownId>>
      [] OTHER -> GateOrder \o <<UnknownId>>

\* ---------------------------------------------------------------- messages
Msg(text, id, n) == [text |-> text, id |-> id, n |-> n]
NoMsg == Msg("", None, 0)

\* Python truthiness of an optional string
Truthy(x) == x # None /\ x # ""

\* a local variable: the value is computed once and named in the body
Bind(value, Body(_)) == CHOOSE out \in {Body(x) : x \in {value}} : TRUE

Put(f, k, v) == [x \in DOMAIN f \cup {k} |-> IF x = k THEN v ELSE f[x]]
EmptyDict == [x \in {} |-> None]

\* ------------------------------------------------------------------- heap
\* heap.dicts : address of a dictionary object -> (id -> address of an entry)
\* heap.ents  : address of a snapshot dictionary -> its content
\* An address names the TwinState object that allocated it.
DictAddrs(name) == {<<name, k>> : k \in Kinds}
TwinObj(name) == [name |-> name, trains |-> <<name, "trains">>,
                  tracks |-> <<name, "tracks">>, signals |-> <<name, "signals">>,
                  gates |-> <<name, "gates">>]
Twin == TwinObj("twin")

\* TwinState.__init__: four empty dictionaries
TwinState_init(h, name) ==
    [h EXCEPT !.dicts = [a \in DOMAIN h.dicts \cup DictAddrs(name) |->
                            IF a \in DictAddrs(name) THEN EmptyDict ELSE h.dicts[a]]]

EmptyHeap == [dicts |-> [a \in {} |-> EmptyDict], ents |-> [a \in {} |-> NoMsg]]

\* self.<kind>[id] = deepcopy(snapshot): a fresh entry object holding the
\* snapshot's content replaces the slot of the dictionary.
update_entry(h, obj, kind, id, snapshot) ==
    LET a == <<obj.name, kind, id>>
    IN [dicts |-> [h.dicts EXCEPT ![obj[kind]] = Put(@, id, a)],
        ents |-> Put(h.ents, a, snapshot)]

update_train(h, obj, id, snapshot) == update_entry(h, obj, "trains", id, snapshot)
update_track(h, obj, id, snapshot) == update_entry(h, obj, "tracks", id, snapshot)
update_signal(h, obj, id, snapshot) == update_entry(h, obj, "signals", id, snapshot)
update_gate(h, obj, id, snapshot) == update_entry(h, obj, "gates", id, snapshot)

\* dict.get(id): the address of the entry, or NoAddr for Python's None
NoAddr == <<>>
get_entry(h, obj, kind, id) ==
    IF id \in DOMAIN h.dicts[obj[kind]] THEN h.dicts[obj[kind]][id] ELSE NoAddr
get_train(h, obj, id) == get_entry(h, obj, "trains", id)
get_track(h, obj, id) == get_entry(h, obj, "tracks", id)
get_signal(h, obj, id) == get_entry(h, obj, "signals", id)
get_gate(h, obj, id) == get_entry(h, obj, "gates", id)

\* list(dict.values()) as entry addresses
get_all(h, obj, kind) ==
    LET d == h.dicts[obj[kind]]
        ids == SelectSeq(KindOrder(kind), LAMBDA id : id \in DOMAIN d)
    IN [i \in DOMAIN ids |-> d[ids[i]]]

\* a copy that shares the entry objects with the original (dict.copy())
clone_shallow(h, self, name) ==
    [heap |-> [h EXCEPT !.dicts = [a \in DOMAIN h.dicts \cup DictAddrs(name) |->
                                      IF a \in DictAddrs(name)
                                      THEN h.dicts[self[a[2]]]
                                      ELSE h.dicts[a]]],
     obj |-> TwinObj(name)]

\* TwinState.clone: a new TwinState whose four dictionaries are deep copies
clone(h, self, name) ==
    LET d(k) == h.dicts[self[k]]
        fresh == UNION {{<<name, k, id>> : id \in DOMAIN d(k)} : k \in Kinds}
    IN [heap |->
          [dicts |-> [a \in DOMAIN h.dicts \cup DictAddrs(name) |->
                        IF a \in DictAddrs(name)
                        THEN [id \in DOMAIN d(a[2]) |-> <<name, a[2], id>>]
                        ELSE h.dicts[a]],
           ents |-> [a \in DOMAIN h.ents \cup fresh |->
                        IF a \in fresh THEN h.ents[d(a[2])[a[3]]] ELSE h.ents[a]]],
        obj |-> TwinObj(name)]

\* a local TwinState going out of scope: its dictionaries, and every entry
\* no remaining dictionary refers to, are gone
Discard(h, name) ==
    LET keep == {a \in DOMAIN h.dicts : a[1] # name}
        live == UNION {{h.dicts[a][id] : id \in DOMAIN h.dicts[a]} : a \in keep}
    IN [dicts |-> [a \in keep |-> h.dicts[a]],
        ents |-> [a \in live |-> h.ents[a]]]

\* what is observable through a TwinState object
View(h, obj) ==
    [k \in Kinds |-> [id \in DOMAIN h.dicts[obj[k]] |-> h.ents[h.dicts[obj[k]][id]]]]

\* -------------------------------------------------------- ConflictDetector
RECURSIVE track_conflicts_from(_, _, _)
track_conflicts_from(entries, i, allocs) ==
    IF i > Len(entries) THEN <<>>
    ELSE LET t == entries[i]
         IN IF Truthy(t.allocated_to)
            THEN IF t.track_id \in allocs
                 THEN <<[type |-> "TRACK_CONFLICT", signal_id |-> None,
                         track_id |-> t.track_id, severity |-> "CRITICAL"]>>
                      \o track_conflicts_from(entries, i + 1, allocs)
                 ELSE track_conflicts_from(entries, i + 1, allocs \cup {t.track_id})
            ELSE track_conflicts_from(entries, i + 1, allocs)

check_track_conflicts(h, obj) ==
    LET addrs == get_all(h, obj, "tracks")
    IN track_conflicts_from([i \in DOMAIN addrs |-> h.ents[addrs[i]]], 1, {})

check_route_conflicts(h, obj, train_id, target_track) ==
    LET track == get_track(h, obj, target_track)
    IN IF track = NoAddr THEN FALSE
       ELSE h.ents[track].state # "FREE"

Abs(x) == IF x < 0 THEN -x ELSE x

check_timing_conflicts(h, obj, train_id, eta_seconds) ==
    \E other \in DOMAIN h.dicts[obj.trains] :
        /\ other # train_id
        /\ LET st == h.ents[h.dicts[obj.trains][other]]
               other_eta == IF st.has_eta THEN st.eta ELSE 0
           IN Abs(eta_seconds - other_eta) < MIN_SEPARATION

\* the two rules as alternatives: a signal that breaks the first is not
\* tried against the second
signal_conflicts_first_only(h, obj, sig) ==
    IF ~Truthy(sig.track_id) THEN <<>>
    ELSE LET track == get_track(h, obj, sig.track_id)
         IN IF track = NoAddr THEN <<>>
            ELSE LET ts == h.ents[track].state
                     c(sev) == [type |-> "SIGNAL_TRACK_INCONSISTENCY",
                                signal_id |-> sig.signal_id,
                                track_id |-> sig.track_id, severity |-> sev]
                 IN IF ts = "OCCUPIED" /\ sig.state # "RED" THEN <<c("CRITICAL")>>
                    ELSE IF sig.state = "GREEN" /\ ts # "RESERVED" THEN <<c("HIGH")>>
                    ELSE <<>>

signal_conflicts(h, obj, sig) ==
    IF ~Truthy(sig.track_id) THEN <<>>
    ELSE LET track == get_track(h, obj, sig.track_id)
         IN IF track = NoAddr THEN <<>>
            ELSE LET ts == h.ents[track].state
                     c(sev) == [type |-> "SIGNAL_TRACK_INCONSISTENCY",
                                signal_id |-> sig.signal_id,
                                track_id |-> sig.track_id, severity |-> sev]
                 IN (IF ts = "OCCUPIED" /\ sig.state # "RED"
                     THEN <<c("CRITICAL")>> ELSE <<>>)
                    \o (IF sig.state = "GREEN" /\ ts # "RESERVED"
                        THEN <<c("HIGH")>> ELSE <<>>)

RECURSIVE signal_conflicts_from(_, _, _, _)
signal_conflicts_from(h, obj, addrs, i) ==
    IF i > Len(addrs) THEN <<>>
    ELSE signal_conflicts(h, obj, h.ents[addrs[i]])
         \o signal_conflicts_from(h, obj, addrs, i + 1)

check_signal_track_consistency(h, obj) ==
    signal_conflicts_from(h, obj, get_all(h, obj, "signals"), 1)

detect_all_conflicts(h, obj) ==
    check_track_conflicts(h, obj) \o check_signal_track_consistency(h, obj)

\* ------------------------------------------------------------ safety rules
validate_signal_change(new_state, track_state) ==
    IF new_state = "GREEN" THEN track_state = "RESERVED"
    ELSE IF new_state = "RED" THEN TRUE
    ELSE IF new_state = "YELLOW" THEN TRUE
    ELSE FALSE

\* validate_gate_opening admitting a train on the edge of the danger zone
validate_gate_opening_inclusive(nearest_train_distance) ==
    nearest_train_distance >= DANGER_ZONE

validate_gate_opening(nearest_train_distance) ==
    nearest_train_distance > DANGER_ZONE

\* ---------------------------------------------------------- SafetyVerifier
\* The verifier is the record [heap, log, det]: the heap holding its
\* twin_state, its verification_log, and its detector's detected_conflicts.
SafetyVerifier_init ==
    [heap |-> TwinState_init(EmptyHeap, "twin"), log |-> <<>>, det |-> <<>>]

\* a verdict that is written to the verification log whatever it is
Verdict_logged(v, result, reason) ==
    [heap |-> v.heap,
     log |-> Append(v.log, [decision_type |-> "VERDICT", entity_id |-> None,
                            action |-> None, result |-> result]),
     det |-> v.det, result |-> result, reason |-> reason]

Verdict(v, result, reason) ==
    [heap |-> v.heap, log |-> v.log, det |-> v.det, result |-> result, reason |-> reason]

\* _log_verification keeping only the newest record
log_verification_latest_only(log, decision_type, entity_id, action, result) ==
    <<[decision_type |-> decision_type, entity_id |-> entity_id,
       action |-> action, result |-> result]>>

log_verification(log, decision_type, entity_id, action, result) ==
    Append(log, [decision_type |-> decision_type, entity_id |-> entity_id,
                 action |-> action, result |-> result])

\* the simulation state is a local of each verify_* call
EndCall(out) == Bind(out, LAMBDA o : [o EXCEPT !.heap = Discard(o.heap, "sim")])

\* verify_track_allocation with the post-simulation conflict check left out
verify_track_allocation_unchecked(v, train_id, track_id, eta_seconds) ==
    Bind(clone(v.heap, Twin, "sim"), LAMBDA c :
    LET v0 == [v EXCEPT !.heap = c.heap]
        track == get_track(c.heap, c.obj, track_id)
    IN EndCall(
       IF track = NoAddr
       THEN Verdict(v0, "UNSAFE", Msg("Track not found", track_id, 0))
       ELSE IF c.heap.ents[track].state # "FREE"
       THEN Verdict(v0, "UNSAFE", Msg("Track is not FREE", track_id, 0))
       ELSE IF check_timing_conflicts(c.heap, c.obj, train_id, eta_seconds)
       THEN Verdict(v0, "UNSAFE", Msg("Timing conflict detected for train", train_id, 0))
       ELSE Verdict([v0 EXCEPT !.log = log_verification(@, "TRACK_ALLOCATION",
                                                       train_id, track_id, "SAFE")],
                    "SAFE", Msg("Track allocation is safe", None, 0))))

verify_track_allocation(v, train_id, track_id, eta_seconds) ==
    Bind(clone(v.heap, Twin, "sim"), LAMBDA c :
    LET sim == c.obj
        h0 == c.heap
        v0 == [v EXCEPT !.heap = h0]
        track == get_track(h0, sim, track_id)
    IN EndCall(
       IF track = NoAddr
       THEN Verdict(v0, "UNSAFE", Msg("Track not found", track_id, 0))
       ELSE IF h0.ents[track].state # "FREE"
       THEN Verdict(v0, "UNSAFE", Msg("Track is not FREE", track_id, 0))
       ELSE IF check_route_conflicts(h0, sim, train_id, track_id)
       THEN Verdict(v0, "UNSAFE", Msg("Route conflict detected for track", track_id, 0))
       ELSE IF check_timing_conflicts(h0, sim, train_id, eta_seconds)
       THEN Verdict(v0, "UNSAFE", Msg("Timing conflict detected for train", train_id, 0))
       ELSE LET h1 == [h0 EXCEPT !.ents[track] =
                          [@ EXCEPT !.state = "RESERVED", !.allocated_to = train_id,
                                    !.expected_arrival = eta_seconds]]
            IN Bind(update_track(h1, sim, track_id, h1.ents[track]), LAMBDA h2 :
               Bind(detect_all_conflicts(h2, sim), LAMBDA conflicts :
               LET v2 == [heap |-> h2, log |-> v.log, det |-> conflicts]
               IN IF conflicts # <<>>
                  THEN Verdict(v2, "UNSAFE", Msg("Conflicts detected", None, Len(conflicts)))
                  ELSE Verdict([v2 EXCEPT !.log = log_verification(@, "TRACK_ALLOCATION",
                                                       train_id, track_id, "SAFE")],
                               "SAFE", Msg("Track allocation is safe", None, 0))))))

\* verify_signal_change with the post-simulation conflict check left out
verify_signal_change_unchecked(v, signal_id, new_state, track_id) ==
    Bind(clone(v.heap, Twin, "sim"), LAMBDA c :
    LET v0 == [v EXCEPT !.heap = c.heap]
        track == get_track(c.heap, c.obj, track_id)
    IN EndCall(
       IF track = NoAddr
       THEN Verdict(v0, "UNSAFE", Msg("Track not found", track_id, 0))
       ELSE IF ~validate_signal_change(new_state, c.heap.ents[track].state)
       THEN Verdict(v0, "UNSAFE", Msg("Signal change violates safety rules", None, 0))
       ELSE Verdict([v0 EXCEPT !.log = log_verification(@, "SIGNAL_CHANGE",
                                                       signal_id, new_state, "SAFE")],
                    "SAFE", Msg("Signal change is safe", None, 0))))

verify_signal_change(v, signal_id, new_state, track_id) ==
    Bind(clone(v.heap, Twin, "sim"), LAMBDA c :
    LET sim == c.obj
        h0 == c.heap
        v0 == [v EXCEPT !.heap = h0]
        track == get_track(h0, sim, track_id)
    IN EndCall(
       IF track = NoAddr
       THEN Verdict(v0, "UNSAFE", Msg("Track not found", track_id, 0))
       ELSE IF ~validate_signal_change(new_state, h0.ents[track].state)
       THEN Verdict(v0, "UNSAFE", Msg("Signal change violates safety rules", None, 0))
       ELSE LET found == get_signal(h0, sim, signal_id)
                \* a signal unknown to the twin is simulated from a new local dictionary
                signal == IF found = NoAddr THEN <<"sim", "local", signal_id>> ELSE found
                h1 == IF found = NoAddr
                      THEN [h0 EXCEPT !.ents = Put(@, signal,
                               [signal_id |-> signal_id, track_id |-> track_id,
                                state |-> "RED"])]
                      ELSE h0
                h2 == [h1 EXCEPT !.ents[signal] = [@ EXCEPT !.state = new_state]]
            IN Bind(update_signal(h2, sim, signal_id, h2.ents[signal]), LAMBDA h3 :
               Bind(detect_all_conflicts(h3, sim), LAMBDA conflicts :
               LET v3 == [heap |-> h3, log |-> v.log, det |-> conflicts]
               IN IF conflicts # <<>>
                  THEN Verdict(v3, "UNSAFE",
                               Msg("Signal change causes conflicts", None, Len(conflicts)))
                  ELSE Verdict([v3 EXCEPT !.log = log_verification(@, "SIGNAL_CHANGE",
                                                       signal_id, new_state, "SAFE")],
                               "SAFE", Msg("Signal change is safe", None, 0))))))

verify_gate_operation(v, gate_id, new_state, nearest_train_distance) ==
    IF new_state = "OPEN" /\ ~validate_gate_opening(nearest_train_distance)
    THEN Verdict(v, "UNSAFE", Msg("Train too close", None, nearest_train_distance))
    ELSE Verdict([v EXCEPT !.log = log_verification(@, "GATE_OPERATION",
                                                   gate_id, new_state, "SAFE")],
                 "SAFE", Msg("Gate operation is safe", None, 0))

\* verify_decision treating every other decision type as a gate operation
verify_decision_gate_default(v, decision_type, kwargs) ==
    IF decision_type = "TRACK_ALLOCATION"
    THEN verify_track_allocation(v, kwargs.train_id, kwargs.track_id, kwargs.eta_seconds)
    ELSE IF decision_type = "SIGNAL_CHANGE"
    THEN verify_signal_change(v, kwargs.signal_id, kwargs.new_state, kwargs.track_id)
    ELSE verify_gate_operation(v, kwargs.gate_id, kwargs.new_state,
                               kwargs.nearest_train_distance)

\* kwargs is the record of keyword arguments
verify_decision(v, decision_type, kwargs) ==
    IF decision_type = "TRACK_ALLOCATION"
    THEN verify_track_allocation(v, kwargs.train_id, kwargs.track_id, kwargs.eta_seconds)
    ELSE IF decision_type = "SIGNAL_CHANGE"
    THEN verify_signal_change(v, kwargs.signal_id, kwargs.new_state, kwargs.track_id)
    ELSE IF decision_type = "GATE_OPERATION"
    THEN verify_gate_operation(v, kwargs.gate_id, kwargs.new_state,
                               kwargs.nearest_train_distance)
    ELSE Verdict(v, "UNSAFE", Msg("Unknown decision type", decision_type, 0))

\* safety_rate is the fraction num/den (times 100 already applied), 0 when
\* the log is empty
get_verification_stats(log) ==
    LET total == Len(log)
        safe == Cardinality({i \in DOMAIN log : log[i].result = "SAFE"})
    IN [total_verifications |-> total, safe |-> safe, unsafe |-> total - safe,
        safety_rate |-> IF total > 0 THEN [num |-> safe * 100, den |-> total]
                        ELSE [num |-> 0, den |-> 1]]

RECURSIVE sync_list(_, _, _, _)
sync_list(h, kind, list, i) ==
    IF i > Len(list) THEN h
    ELSE sync_list(update_entry(h, Twin, kind, list[i].key, list[i].snap), kind, list, i + 1)

\* sync_state rebuilding each passed kind from its list alone
sync_state_replacing(v, trains, tracks, signals, gates) ==
    LET emptied(h, kind) == [h EXCEPT !.dicts[Twin[kind]] = EmptyDict]
        h1 == IF trains # <<>> THEN sync_list(emptied(v.heap, "trains"), "trains", trains, 1)
              ELSE v.heap
        h2 == IF tracks # <<>> THEN sync_list(emptied(h1, "tracks"), "tracks", tracks, 1)
              ELSE h1
        h3 == IF signals # <<>> THEN sync_list(emptied(h2, "signals"), "signals", signals, 1)
              ELSE h2
        h4 == IF gates # <<>> THEN sync_list(emptied(h3, "gates"), "gates", gates, 1)
              ELSE h3
    IN [v EXCEPT !.heap = h4]

\* each argument is a list of [key, snap]: the id read from the snapshot
\* and the snapshot; an empty list stands for both None and []
sync_state(v, trains, tracks, signals, gates) ==
    LET h1 == IF trains # <<>> THEN sync_list(v.heap, "trains", trains, 1) ELSE v.heap
        h2 == IF tracks # <<>> THEN sync_list(h1, "tracks", tracks, 1) ELSE h1
        h3 == IF signals # <<>> THEN sync_list(h2, "signals", signals, 1) ELSE h2
        h4 == IF gates # <<>> THEN sync_list(h3, "gates", gates, 1) ELSE h3
    IN [v EXCEPT !.heap = h4]

\* ------------------------------------------------------------------ Track
Track_init ==
    [state |-> "FREE", allocated_to |-> None, expected_arrival_time |-> NoTime,
     history |-> <<>>]

log_state_change(history, new_state, train_id) ==
    Append(history, [state |-> new_state, train_id |-> train_id])

\* reserve taking the track whatever its state
reserve_overwriting(t, train_id, eta_seconds) ==
    [track |-> [state |-> "RESERVED", allocated_to |-> train_id,
                expected_arrival_time |-> eta_seconds,
                history |-> log_state_change(t.history, "RESERVED", train_id)],
     ok |-> TRUE]

reserve(t, train_id, eta_seconds) ==
    IF t.state # "FREE" THEN [track |-> t, ok |-> FALSE]
    ELSE [track |-> [state |-> "RESERVED", allocated_to |-> train_id,
                     expected_arrival_time |-> eta_seconds,
                     history |-> log_state_change(t.history, "RESERVED", train_id)],
          ok |-> TRUE]

\* occupy admitting any train on a RESERVED track
occupy_any_train(t, train_id) ==
    IF t.state # "RESERVED" THEN [track |-> t, ok |-> FALSE]
    ELSE [track |-> [t EXCEPT !.state = "OCCUPIED",
                              !.history = log_state_change(@, "OCCUPIED", train_id)],
          ok |-> TRUE]

occupy(t, train_id) ==
    IF t.state # "RESERVED" \/ t.allocated_to # train_id THEN [track |-> t, ok |-> FALSE]
    ELSE [track |-> [t EXCEPT !.state = "OCCUPIED",
                              !.history = log_state_change(@, "OCCUPIED", train_id)],
          ok |-> TRUE]

\* start_clearing accepted on a track the train has not reached yet
start_clearing_from_reserved(t) ==
    IF t.state \notin {"OCCUPIED", "RESERVED"} THEN [track |-> t, ok |-> FALSE]
    ELSE [track |-> [t EXCEPT !.state = "CLEARING",
                              !.history = log_state_change(@, "CLEARING", t.allocated_to)],
          ok |-> TRUE]

start_clearing(t) ==
    IF t.state # "OCCUPIED" THEN [track |-> t, ok |-> FALSE]
    ELSE [track |-> [t EXCEPT !.state = "CLEARING",
                              !.history = log_state_change(@, "CLEARING", t.allocated_to)],
          ok |-> TRUE]

\* clear also releasing a reservation that was never taken up
clear_releasing_reserved(t) ==
    IF t.state \notin {"CLEARING", "RESERVED"} THEN [track |-> t, ok |-> FALSE]
    ELSE [track |-> [state |-> "FREE", allocated_to |-> None,
                     expected_arrival_time |-> NoTime,
                     history |-> log_state_change(t.history, "FREE", t.allocated_to)],
          ok |-> TRUE]

clear_keeping_allocation(t) ==
    IF t.state # "CLEARING" THEN [track |-> t, ok |-> FALSE]
    ELSE [track |-> [t EXCEPT !.state = "FREE",
                              !.history = log_state_change(@, "FREE", t.allocated_to)],
          ok |-> TRUE]

clear(t) ==
    IF t.state # "CLEARING" THEN [track |-> t, ok |-> FALSE]
    ELSE [track |-> [state |-> "FREE", allocated_to |-> None,
                     expected_arrival_time |-> NoTime,
                     history |-> log_state_change(t.history, "FREE", t.allocated_to)],
          ok |-> TRUE]

Track_get_state(track_id, t) ==
    [track_id |-> track_id, state |-> t.state, allocated_to |-> t.allocated_to,
     expected_arrival |-> t.expected_arrival_time, clearance_time |-> MIN_CLEARANCE_TIME]

\* ----------------------------------------------------------- TrackManager
TrackManager_init == [id \in TrackIds |-> Track_init]

RECURSIVE allocate_from(_, _, _, _)
allocate_from(ts, i, train_id, eta_seconds) ==
    IF i > Len(TrackOrder) THEN [tracks |-> ts, id |-> None]
    ELSE LET id == TrackOrder[i]
             r == reserve(ts[id], train_id, eta_seconds)
         IN IF ts[id].state = "FREE" /\ r.ok
            THEN [tracks |-> [ts EXCEPT ![id] = r.track], id |-> id]
            ELSE allocate_from(ts, i + 1, train_id, eta_seconds)

\* allocate_track taking the last FREE track of the order
allocate_track_last_free(ts, train_id, eta_seconds) ==
    LET free == {i \in DOMAIN TrackOrder : ts[TrackOrder[i]].state = "FREE"}
    IN IF free = {} THEN [tracks |-> ts, id |-> None]
       ELSE LET id == TrackOrder[CHOOSE i \in free : \A j \in free : j <= i]
            IN [tracks |-> [ts EXCEPT ![id] = reserve(@, train_id, eta_seconds).track],
                id |-> id]

allocate_track(ts, train_id, eta_seconds) == allocate_from(ts, 1, train_id, eta_seconds)

get_free_track_count(ts) == Cardinality({id \in TrackIds : ts[id].state = "FREE"})

TrackManager_get_all_states(ts) ==
    [i \in DOMAIN TrackOrder |->
        [key |-> TrackOrder[i], snap |-> Track_get_state(TrackOrder[i], ts[TrackOrder[i]])]]

\* ----------------------------------------------------------------- Signal
Signal_init(track_id) == [track_id |-> track_id, state |-> "RED", history |-> <<>>]

Signal_change_state(sig, new_state, verified) ==
    IF ~verified THEN [signal |-> sig, ok |-> FALSE]
    ELSE [signal |-> [sig EXCEPT !.state = new_state,
                                 !.history = Append(@, [old_state |-> sig.state,
                                                        new_state |-> new_state])],
          ok |-> TRUE]

Signal_get_state(signal_id, sig) ==
    [signal_id |-> signal_id, track_id |-> sig.track_id, state |-> sig.state]

\* ------------------------------------------------------- SignalController
SignalController_init == [id \in SignalIds |-> Signal_init(SignalTrack[id])]

NoCall == [type |-> "NONE", entity_id |-> None, action |-> None,
           track_id |-> None, number |-> 0, result |-> "NONE"]

log_command(log, id, new_state, success, reason) ==
    Append(log, [id |-> id, new_state |-> new_state, success |-> success,
                 reason |-> reason])

\* result of a controller call: the entities, the command log, the verifier,
\* the returned (ok, text, reason) and the verify_* call it made, if any
Outcome(ents, log, v, ok, text, reason, call) ==
    [ents |-> ents, log |-> log, v |-> v, ok |-> ok, text |-> text,
     reason |-> reason, call |-> call]

\* change_signal committing whatever the verifier answered
change_signal_commit_unsafe(sigs, log, v, attached, signal_id, new_state, override) ==
    IF signal_id \notin DOMAIN sigs
    THEN Outcome(sigs, log, v, FALSE, "Signal not found", NoMsg, NoCall)
    ELSE IF new_state \notin SignalState
    THEN Outcome(sigs, log, v, FALSE, "Invalid signal state", NoMsg, NoCall)
    ELSE Bind(verify_signal_change(v, signal_id, new_state, sigs[signal_id].track_id),
              LAMBDA r :
         LET verified == attached /\ ~override
             call == [type |-> "SIGNAL_CHANGE", entity_id |-> signal_id,
                      action |-> new_state, track_id |-> sigs[signal_id].track_id,
                      number |-> 0, result |-> r.result]
         IN Outcome([sigs EXCEPT ![signal_id] =
                          Signal_change_state(@, new_state, TRUE).signal],
                    log_command(log, signal_id, new_state, TRUE,
                                Msg(IF override THEN "OVERRIDE"
                                    ELSE IF attached THEN "VERIFIED" ELSE "NO_VERIFIER",
                                    None, 0)),
                    IF verified THEN [heap |-> r.heap, log |-> r.log, det |-> r.det] ELSE v,
                    TRUE, "Signal changed", NoMsg,
                    IF verified THEN call ELSE NoCall))

change_signal(sigs, log, v, attached, signal_id, new_state, override) ==
    IF signal_id \notin DOMAIN sigs
    THEN Outcome(sigs, log, v, FALSE, "Signal not found", NoMsg, NoCall)
    ELSE IF new_state \notin SignalState
    THEN Outcome(sigs, log, v, FALSE, "Invalid signal state", NoMsg, NoCall)
    ELSE IF override
    THEN Outcome([sigs EXCEPT ![signal_id] = Signal_change_state(@, new_state, TRUE).signal],
                 log_command(log, signal_id, new_state, TRUE, Msg("OVERRIDE", None, 0)),
                 v, TRUE, "Signal changed (OVERRIDE)", NoMsg, NoCall)
    ELSE IF attached
    THEN Bind(verify_signal_change(v, signal_id, new_state, sigs[signal_id].track_id),
              LAMBDA r :
         LET v1 == [heap |-> r.heap, log |-> r.log, det |-> r.det]
             call == [type |-> "SIGNAL_CHANGE", entity_id |-> signal_id,
                      action |-> new_state, track_id |-> sigs[signal_id].track_id,
                      number |-> 0, result |-> r.result]
         IN IF r.result = "SAFE"
            THEN Outcome([sigs EXCEPT ![signal_id] =
                               Signal_change_state(@, new_state, TRUE).signal],
                         log_command(log, signal_id, new_state, TRUE,
                                     Msg("VERIFIED", None, 0)),
                         v1, TRUE, "Signal changed", NoMsg, call)
            ELSE Outcome(sigs, log_command(log, signal_id, new_state, FALSE, r.reason),
                         v1, FALSE, "Signal change blocked", r.reason, call))
    ELSE Outcome([sigs EXCEPT ![signal_id] = Signal_change_state(@, new_state, TRUE).signal],
                 log_command(log, signal_id, new_state, TRUE, Msg("NO_VERIFIER", None, 0)),
                 v, TRUE, "Signal changed (NO VERIFICATION)", NoMsg, NoCall)

SignalController_get_all_states(sigs) ==
    [i \in DOMAIN SignalOrder |->
        [key |-> SignalOrder[i],
         snap |-> Signal_get_state(SignalOrder[i], sigs[SignalOrder[i]])]]

\* ------------------------------------------------------------------- Gate
Gate_init ==
    [state |-> "CLOSED", nearest_train_id |-> None,
     nearest_train_distance |-> INITIAL_DISTANCE, history |-> <<>>]

Gate_change_state(g, new_state, verified) ==
    IF ~verified THEN [gate |-> g, ok |-> FALSE]
    ELSE [gate |-> [g EXCEPT !.state = new_state,
                             !.history = Append(@, [old_state |-> g.state,
                                   new_state |-> new_state,
                                   nearest_train_distance |-> g.nearest_train_distance])],
          ok |-> TRUE]

update_nearest_train(g, train_id, distance) ==
    [g EXCEPT !.nearest_train_id = train_id, !.nearest_train_distance = distance]

Gate_get_state(gate_id, g) ==
    [gate_id |-> gate_id, state |-> g.state, nearest_train |-> g.nearest_train_id,
     distance |-> g.nearest_train_distance]

\* --------------------------------------------------------- GateController
GateController_init == [id \in GateIds |-> Gate_init]

\* change_gate sending an override through the verifier like any other call
change_gate_verify_override(gs, log, v, attached, gate_id, new_state, override) ==
    IF gate_id \notin DOMAIN gs
    THEN Outcome(gs, log, v, FALSE, "Gate not found", NoMsg, NoCall)
    ELSE IF new_state \notin GateState
    THEN Outcome(gs, log, v, FALSE, "Invalid gate state", NoMsg, NoCall)
    ELSE LET r == verify_gate_operation(v, gate_id, new_state,
                                        gs[gate_id].nearest_train_distance)
             call == [type |-> "GATE_OPERATION", entity_id |-> gate_id,
                      action |-> new_state, track_id |-> None,
                      number |-> gs[gate_id].nearest_train_distance,
                      result |-> r.result]
         IN IF ~attached
            THEN Outcome([gs EXCEPT ![gate_id] = Gate_change_state(@, new_state, TRUE).gate],
                         log_command(log, gate_id, new_state, TRUE,
                                     Msg("NO_VERIFIER", None, 0)),
                         v, TRUE, "Gate changed (NO VERIFICATION)", NoMsg, NoCall)
            ELSE IF r.result = "SAFE"
            THEN Outcome([gs EXCEPT ![gate_id] = Gate_change_state(@, new_state, TRUE).gate],
                         log_command(log, gate_id, new_state, TRUE,
                                     Msg(IF override THEN "OVERRIDE" ELSE "VERIFIED",
                                         None, 0)),
                         [heap |-> r.heap, log |-> r.log, det |-> r.det],
                         TRUE, "Gate changed", NoMsg, call)
            ELSE Outcome(gs, log_command(log, gate_id, new_state, FALSE, r.reason),
                         [heap |-> r.heap, log |-> r.log, det |-> r.det],
                         FALSE, "Gate change blocked", r.reason, call)

change_gate(gs, log, v, attached, gate_id, new_state, override) ==
    IF gate_id \notin DOMAIN gs
    THEN Outcome(gs, log, v, FALSE, "Gate not found", NoMsg, NoCall)
    ELSE IF new_state \notin GateState
    THEN Outcome(gs, log, v, FALSE, "Invalid gate state", NoMsg, NoCall)
    ELSE IF override
    THEN Outcome([gs EXCEPT ![gate_id] = Gate_change_state(@, new_state, TRUE).gate],
                 log_command(log, gate_id, new_state, TRUE, Msg("OVERRIDE", None, 0)),
                 v, TRUE, "Gate changed (OVERRIDE)", NoMsg, NoCall)
    ELSE IF attached
    THEN LET r == verify_gate_operation(v, gate_id, new_state,
                                        gs[gate_id].nearest_train_distance)
             v1 == [heap |-> r.heap, log |-> r.log, det |-> r.det]
             call == [type |-> "GATE_OPERATION", entity_id |-> gate_id,
                      action |-> new_state, track_id |-> None,
                      number |-> gs[gate_id].nearest_train_distance,
                      result |-> r.result]
         IN IF r.result = "SAFE"
            THEN Outcome([gs EXCEPT ![gate_id] = Gate_change_state(@, new_state, TRUE).gate],
                         log_command(log, gate_id, new_state, TRUE,
                                     Msg("VERIFIED", None, 0)),
                         v1, TRUE, "Gate changed", NoMsg, call)
            ELSE Outcome(gs, log_command(log, gate_id, new_state, FALSE, r.reason),
                         v1, FALSE, "Gate change blocked", r.reason, call)
    ELSE Outcome([gs EXCEPT ![gate_id] = Gate_change_state(@, new_state, TRUE).gate],
                 log_command(log, gate_id, new_state, TRUE, Msg("NO_VERIFIER", None, 0)),
                 v, TRUE, "Gate changed (NO VERIFICATION)", NoMsg, NoCall)

update_train_proximity(gs, gate_id, train_id, distance) ==
    IF gate_id \in DOMAIN gs
    THEN [gs EXCEPT ![gate_id] = update_nearest_train(@, train_id, distance)]
    ELSE gs

auto_close_if_needed(gs, log, v, attached, gate_id, threshold) ==
    IF gate_id \notin DOMAIN gs
    THEN Outcome(gs, log, v, FALSE, "Gate not found", NoMsg, NoCall)
    ELSE IF gs[gate_id].nearest_train_distance < threshold /\ gs[gate_id].state # "CLOSED"
    THEN LET r == change_gate(gs, log, v, attached, gate_id, "CLOSING", FALSE)
         IN IF r.ok
            THEN [r EXCEPT !.text = "Auto-closing gate"]
            ELSE [r EXCEPT !.text = "No action needed", !.reason = NoMsg]
    ELSE Outcome(gs, log, v, FALSE, "No action needed", NoMsg, NoCall)

GateController_get_all_states(gs) ==
    [i \in DOMAIN GateOrder |->
        [key |-> GateOrder[i], snap |-> Gate_get_state(GateOrder[i], gs[GateOrder[i]])]]

\* ------------------------------------------------------------------ state
VARIABLES
    tracks,       \* TrackManager.tracks: id -> Track
    signals,      \* SignalController.signals: id -> Signal
    gates,        \* GateController.gates: id -> Gate
    sig_log,      \* SignalController.command_log
    gate_log,     \* GateController.command_log
    verifier,     \* the SafetyVerifier: heap (twin_state), log, det
    attached,     \* whether the controllers were constructed with the verifier
    last,         \* the last call: its arguments, what it returned, the verify_* call it made
    n_calls,      \* number of verify_* calls made so far
    n_safe,       \* number of them that returned SAFE
    copy,         \* whether a clone of the twin is held by a caller
    edits         \* steps taken since that clone was made

vars == <<tracks, signals, gates, sig_log, gate_log, verifier, attached, last,
          n_calls, n_safe, copy, edits>>

Last(op, id, new_state, override, ok, text, reason, call) ==
    [op |-> op, id |-> id, new_state |-> new_state, override |-> override,
     ok |-> ok, text |-> text, reason |-> reason, call |-> call]

Init ==
    /\ tracks = TrackManager_init
    /\ signals = SignalController_init
    /\ gates = GateController_init
    /\ sig_log = <<>>
    /\ gate_log = <<>>
    /\ verifier = SafetyVerifier_init
    /\ attached \in BOOLEAN
    /\ last = Last("init", None, None, FALSE, TRUE, "", NoMsg, NoCall)
    /\ n_calls = 0
    /\ n_safe = 0
    /\ copy = FALSE
    /\ edits = 0

InitAttached == Init /\ attached = TRUE

Counted(call) ==
    /\ n_calls' = IF call.type = "NONE" THEN n_calls ELSE n_calls + 1
    /\ n_safe' = IF call.result = "SAFE" THEN n_safe + 1 ELSE n_safe

\* the live side refreshing the twin with get_all_states() of every controller
FullSync(v, ts, ss, gs) ==
    sync_state(v, <<>>, TrackManager_get_all_states(ts),
               SignalController_get_all_states(ss), GateController_get_all_states(gs))

\* ------------------------------------------------------------ track steps
\* synced: the caller follows the call by sync_state, as the integration
\* demo does after each live mutation
TrackStep(op, id, train_id, r, synced) ==
    /\ r.ok => Len(tracks[id].history) < MaxHist
    /\ tracks' = [tracks EXCEPT ![id] = r.track]
    /\ verifier' = IF synced
                   THEN FullSync(verifier, [tracks EXCEPT ![id] = r.track], signals, gates)
                   ELSE verifier
    /\ last' = Last(op, id, train_id, FALSE, r.ok, "", NoMsg, NoCall)
    /\ UNCHANGED <<signals, gates, sig_log, gate_log, attached, n_calls, n_safe, copy, edits>>

Reserve(id, train_id, eta, synced) ==
    TrackStep("reserve", id, train_id, reserve(tracks[id], train_id, eta), synced)
Occupy(id, train_id, synced) ==
    TrackStep("occupy", id, train_id, occupy(tracks[id], train_id), synced)
StartClearing(id, synced) ==
    TrackStep("start_clearing", id, None, start_clearing(tracks[id]), synced)
Clear(id, synced) ==
    TrackStep("clear", id, None, clear(tracks[id]), synced)

\* allocate_track routed through the verifier: the track is reserved only on
\* a SAFE verdict for it
AllocateTrack_verified(train_id, eta, synced) ==
    LET r == allocate_track(tracks, train_id, eta)
    IN /\ r.id # None => Len(tracks[r.id].history) < MaxHist
       /\ \E out \in {IF r.id = None THEN Verdict(verifier, "NONE", NoMsg)
                      ELSE verify_track_allocation(verifier, train_id, r.id, eta)} :
             /\ tracks' = IF out.result = "SAFE" THEN r.tracks ELSE tracks
             /\ verifier' = [heap |-> out.heap, log |-> out.log, det |-> out.det]
             /\ last' = Last("allocate_track", IF out.result = "SAFE" THEN r.id ELSE None,
                             train_id, FALSE, out.result = "SAFE", "", NoMsg, NoCall)
       /\ UNCHANGED <<signals, gates, sig_log, gate_log, attached,
                      n_calls, n_safe, copy, edits>>

AllocateTrack(train_id, eta, synced) ==
    LET r == allocate_track(tracks, train_id, eta)
    IN /\ r.id # None => Len(tracks[r.id].history) < MaxHist
       /\ tracks' = r.tracks
       /\ verifier' = IF synced THEN FullSync(verifier, r.tracks, signals, gates)
                      ELSE verifier
       /\ last' = Last("allocate_track", r.id, train_id, FALSE, r.id # None, "", NoMsg, NoCall)
       /\ UNCHANGED <<signals, gates, sig_log, gate_log, attached,
                      n_calls, n_safe, copy, edits>>

\* ------------------------------------------------------- controller steps
Commands == Len(sig_log) + Len(gate_log)

ChangeSignal(signal_id, new_state, override, synced) ==
    /\ Commands < MaxLog
    /\ n_calls < MaxCalls
    /\ \E r \in {change_signal(signals, sig_log, verifier, attached, signal_id, new_state,
                               override)} :
          /\ signals' = r.ents
          /\ sig_log' = r.log
          /\ verifier' = IF synced THEN FullSync(r.v, tracks, r.ents, gates) ELSE r.v
          /\ last' = Last("change_signal", signal_id, new_state, override, r.ok, r.text,
                          r.reason, r.call)
          /\ Counted(r.call)
    /\ UNCHANGED <<tracks, gates, gate_log, attached, copy, edits>>

\* sync_state with every controller's get_all_states(), then change_signal,
\* nothing else running in between
AtomicChangeSignal(signal_id, new_state) ==
    /\ Commands < MaxLog
    /\ n_calls < MaxCalls
    /\ \E r \in {change_signal(signals, sig_log, FullSync(verifier, tracks, signals, gates),
                               attached, signal_id, new_state, FALSE)} :
          /\ signals' = r.ents
          /\ sig_log' = r.log
          /\ verifier' = r.v
          /\ last' = Last("sync_and_change_signal", signal_id, new_state, FALSE, r.ok,
                          r.text, r.reason, r.call)
          /\ Counted(r.call)
    /\ UNCHANGED <<tracks, gates, gate_log, attached, copy, edits>>

GateStep(op, gate_id, new_state, override, result, synced) ==
    /\ Commands < MaxLog
    /\ n_calls < MaxCalls
    /\ \E r \in {result} :
          /\ gates' = r.ents
          /\ gate_log' = r.log
          /\ verifier' = IF synced THEN FullSync(r.v, tracks, signals, r.ents) ELSE r.v
          /\ last' = Last(op, gate_id, new_state, override, r.ok, r.text, r.reason, r.call)
          /\ Counted(r.call)
    /\ UNCHANGED <<tracks, signals, sig_log, attached, copy, edits>>

ChangeGate(gate_id, new_state, override, synced) ==
    GateStep("change_gate", gate_id, new_state, override,
             change_gate(gates, gate_log, verifier, attached, gate_id, new_state, override),
             synced)

AutoCloseIfNeeded(gate_id, threshold, synced) ==
    GateStep("auto_close_if_needed", gate_id, "CLOSING", FALSE,
             auto_close_if_needed(gates, gate_log, verifier, attached, gate_id, threshold),
             synced)

UpdateTrainProximity(gate_id, train_id, distance, synced) ==
    LET gs == update_train_proximity(gates, gate_id, train_id, distance)
    IN /\ gates' = gs
       /\ verifier' = IF synced THEN FullSync(verifier, tracks, signals, gs) ELSE verifier
       /\ last' = Last("update_train_proximity", gate_id, train_id, FALSE, TRUE, "",
                       NoMsg, NoCall)
       /\ UNCHANGED <<tracks, signals, sig_log, gate_log, attached,
                      n_calls, n_safe, copy, edits>>

\* ------------------------------------------------------------- sync steps
\* the live side passes the get_all_states() lists of the chosen controllers
SyncLive(with_tracks, with_signals, with_gates) ==
    /\ verifier' = sync_state(verifier, <<>>,
                      IF with_tracks THEN TrackManager_get_all_states(tracks) ELSE <<>>,
                      IF with_signals THEN SignalController_get_all_states(signals) ELSE <<>>,
                      IF with_gates THEN GateController_get_all_states(gates) ELSE <<>>)
    /\ last' = Last("sync_state", None, None, FALSE, TRUE, "", NoMsg, NoCall)
    /\ UNCHANGED <<tracks, signals, gates, sig_log, gate_log, attached,
                   n_calls, n_safe, copy, edits>>

\* a caller passes snapshot lists of its own
SyncSnapshots(trains, trks, sigs, gts) ==
    /\ verifier' = sync_state(verifier, trains, trks, sigs, gts)
    /\ last' = Last("sync_state", None, None, FALSE, TRUE, "", NoMsg, NoCall)
    /\ UNCHANGED <<tracks, signals, gates, sig_log, gate_log, attached,
                   n_calls, n_safe, copy, edits>>

\* ----------------------------------------------------------- verify steps
VerifyStep(op, call, result) ==
    /\ n_calls < MaxCalls
    /\ \E r \in {result} :
          /\ verifier' = [heap |-> r.heap, log |-> r.log, det |-> r.det]
          /\ last' = Last(op, call.entity_id, call.action, FALSE, r.result = "SAFE",
                          r.result, r.reason, [call EXCEPT !.result = r.result])
          /\ Counted([call EXCEPT !.result = r.result])
    /\ UNCHANGED <<tracks, signals, gates, sig_log, gate_log, attached, copy, edits>>

VerifyTrackAllocation(train_id, track_id, eta) ==
    VerifyStep("verify_track_allocation",
               [type |-> "TRACK_ALLOCATION", entity_id |-> train_id, action |-> track_id,
                track_id |-> track_id, number |-> eta, result |-> "NONE"],
               verify_track_allocation(verifier, train_id, track_id, eta))

VerifySignalChange(signal_id, new_state, track_id) ==
    VerifyStep("verify_signal_change",
               [type |-> "SIGNAL_CHANGE", entity_id |-> signal_id, action |-> new_state,
                track_id |-> track_id, number |-> 0, result |-> "NONE"],
               verify_signal_change(verifier, signal_id, new_state, track_id))

VerifyGateOperation(gate_id, new_state, distance) ==
    VerifyStep("verify_gate_operation",
               [type |-> "GATE_OPERATION", entity_id |-> gate_id, action |-> new_state,
                track_id |-> None, number |-> distance, result |-> "NONE"],
               verify_gate_operation(verifier, gate_id, new_state, distance))

\* kwargs carries the keyword arguments of all three decision types
VerifyDecision(decision_type, kwargs) ==
    LET known == decision_type \in {"TRACK_ALLOCATION", "SIGNAL_CHANGE", "GATE_OPERATION"}
        call == [type |-> IF known THEN decision_type ELSE "NONE",
                 entity_id |-> IF decision_type = "TRACK_ALLOCATION" THEN kwargs.train_id
                               ELSE IF decision_type = "SIGNAL_CHANGE" THEN kwargs.signal_id
                               ELSE kwargs.gate_id,
                 action |-> IF decision_type = "TRACK_ALLOCATION" THEN kwargs.track_id
                            ELSE kwargs.new_state,
                 track_id |-> IF decision_type = "GATE_OPERATION" THEN None
                              ELSE kwargs.track_id,
                 number |-> IF decision_type = "TRACK_ALLOCATION" THEN kwargs.eta_seconds
                            ELSE IF decision_type = "SIGNAL_CHANGE" THEN 0
                            ELSE kwargs.nearest_train_distance,
                 result |-> "NONE"]
    IN /\ n_calls < MaxCalls
       /\ \E r \in {verify_decision(verifier, decision_type, kwargs)} :
             LET made == IF known THEN [call EXCEPT !.result = r.result] ELSE NoCall
             IN /\ verifier' = [heap |-> r.heap, log |-> r.log, det |-> r.det]
                /\ last' = Last("verify_decision", decision_type, call.action, FALSE,
                                r.result = "SAFE", r.result, r.reason, made)
                /\ Counted(made)
       /\ UNCHANGED <<tracks, signals, gates, sig_log, gate_log, attached, copy, edits>>

\* ------------------------------------------------------------ clone steps
Copy == TwinObj("copy")

\* a caller takes a clone of the verifier's twin and keeps it
MakeClone ==
    /\ ~copy
    /\ copy' = TRUE
    /\ edits' = 0
    /\ verifier' = [verifier EXCEPT !.heap = clone(@, Twin, "copy").heap]
    /\ last' = Last("clone", None, None, FALSE, TRUE, "", NoMsg, NoCall)
    /\ UNCHANGED <<tracks, signals, gates, sig_log, gate_log, attached, n_calls, n_safe>>

CloneStep(op, h) ==
    /\ copy
    /\ edits < MaxEdits
    /\ edits' = edits + 1
    /\ verifier' = [verifier EXCEPT !.heap = h]
    /\ last' = Last(op, None, None, FALSE, TRUE, "", NoMsg, NoCall)
    /\ UNCHANGED <<tracks, signals, gates, sig_log, gate_log, attached, n_calls, n_safe, copy>>

\* entry = obj.get_<kind>(id); entry['state'] = value
EditEntry(obj, kind, id, value) ==
    LET a == get_entry(verifier.heap, obj, kind, id)
    IN /\ copy
       /\ a # NoAddr
       /\ CloneStep(IF obj = Copy THEN "edit_copy" ELSE "edit_original",
                    [verifier.heap EXCEPT !.ents[a] = [@ EXCEPT !.state = value]])

\* obj.update_<kind>(id, snapshot)
UpdateEntry(obj, kind, id, snapshot) ==
    CloneStep(IF obj = Copy THEN "update_copy" ELSE "update_original",
              update_entry(verifier.heap, obj, kind, id, snapshot))

\* --------------------------------------------------------- specifications
\* Track and TrackManager on their own
NextTrack ==
    \E id \in TrackIds, train_id \in TrainIds, eta \in Etas :
        \/ Reserve(id, train_id, eta, FALSE)
        \/ Occupy(id, train_id, FALSE)
        \/ StartClearing(id, FALSE)
        \/ Clear(id, FALSE)
        \/ AllocateTrack(train_id, eta, FALSE)

SpecTrack == InitAttached /\ [][NextTrack]_vars

\* The controllers, with or without a verifier, the caller syncing the twin
\* when it chooses to
CtlTrain == "T001"
CtlEta == 180
CtlThreshold == 500

NextSynced ==
    \/ Occupy("P1", CtlTrain, TRUE)
    \/ StartClearing("P1", TRUE)
    \/ Clear("P1", TRUE)
    \/ AllocateTrack(CtlTrain, CtlEta, TRUE)
    \/ \E new_state \in {"GREEN", "RED"} : ChangeSignal("S1", new_state, FALSE, TRUE)
    \/ \E new_state \in {"OPEN", "CLOSED"} : ChangeGate("G1", new_state, FALSE, TRUE)
    \/ AutoCloseIfNeeded("G1", CtlThreshold, TRUE)
    \/ \E d \in {DANGER_ZONE, DANGER_ZONE + 1} : UpdateTrainProximity("G1", CtlTrain, d, TRUE)

Next ==
    \/ Reserve("P1", CtlTrain, CtlEta, FALSE)
    \/ Occupy("P1", CtlTrain, FALSE)
    \/ \E new_state \in {"GREEN", "RED", "BLUE"} : ChangeSignal("S1", new_state, FALSE, FALSE)
    \/ ChangeSignal(UnknownId, "GREEN", FALSE, FALSE)
    \/ ChangeSignal("S1", "GREEN", TRUE, FALSE)
    \/ \E new_state \in {"OPEN", "CLOSED", "AJAR"} : ChangeGate("G1", new_state, FALSE, FALSE)
    \/ ChangeGate(UnknownId, "OPEN", FALSE, FALSE)
    \/ ChangeGate("G1", "OPEN", TRUE, FALSE)
    \/ AutoCloseIfNeeded("G1", CtlThreshold, FALSE)
    \/ \E d \in {DANGER_ZONE, DANGER_ZONE + 1} : UpdateTrainProximity("G1", CtlTrain, d, FALSE)
    \/ SyncLive(TRUE, TRUE, FALSE)

Spec == Init /\ [][Next]_vars

\* The integration demo's discipline: a verifier is attached, no override is
\* used, the twin is synced at start and after every live call
InitSynced ==
    /\ tracks = TrackManager_init
    /\ signals = SignalController_init
    /\ gates = GateController_init
    /\ sig_log = <<>>
    /\ gate_log = <<>>
    /\ verifier = FullSync(SafetyVerifier_init, TrackManager_init, SignalController_init,
                           GateController_init)
    /\ attached = TRUE
    /\ last = Last("sync_state", None, None, FALSE, TRUE, "", NoMsg, NoCall)
    /\ n_calls = 0
    /\ n_safe = 0
    /\ copy = FALSE
    /\ edits = 0

SpecSynced == InitSynced /\ [][NextSynced]_vars

\* The verifier called directly, the twin filled by sync_state with
\* snapshots of the caller's choosing
SnapTrack(id, state) ==
    [key |-> id,
     snap |-> [track_id |-> id, state |-> state,
               allocated_to |-> IF state = "FREE" THEN None ELSE CtlTrain,
               expected_arrival |-> IF state = "FREE" THEN NoTime ELSE CtlEta,
               clearance_time |-> MIN_CLEARANCE_TIME]]
SnapSignal(id, state) ==
    [key |-> id, snap |-> [signal_id |-> id, track_id |-> SignalTrack[id], state |-> state]]
SnapTrain(id, has_eta, eta) ==
    [key |-> id, snap |-> [id |-> id, has_eta |-> has_eta, eta |-> eta]]
SnapGate(id, state, distance) ==
    [key |-> id, snap |-> [gate_id |-> id, state |-> state, nearest_train |-> CtlTrain,
                           distance |-> distance]]

TrackLists ==
    {<<SnapTrack("P1", st)>> : st \in {"FREE", "RESERVED", "OCCUPIED"}}
    \cup {<<SnapTrack("P1", "RESERVED"), SnapTrack("P2", "OCCUPIED")>>}
SignalLists == {<<SnapSignal("S1", "RED")>>, <<SnapSignal("S1", "GREEN")>>,
                <<SnapSignal("S2", "GREEN")>>}
TrainLists == {<<SnapTrain("T002", TRUE, 250)>>}
GateLists == {<<SnapGate("G1", "CLOSED", 450)>>}

Kwargs == [train_id |-> "T001", track_id |-> "P1", eta_seconds |-> 180,
           signal_id |-> "S1", new_state |-> "GREEN", gate_id |-> "G1",
           nearest_train_distance |-> 501]

VerifyCalls ==
    \/ \E train_id \in TrainIds : VerifyTrackAllocation(train_id, "P1", CtlEta)
    \/ VerifyTrackAllocation("T001", UnknownId, CtlEta)
    \/ \E new_state \in {"GREEN", "RED", "BLUE"} : VerifySignalChange("S1", new_state, "P1")
    \/ VerifySignalChange(UnknownId, "GREEN", "P1")
    \/ VerifySignalChange("S1", "GREEN", UnknownId)
    \/ \E d \in {DANGER_ZONE, DANGER_ZONE + 1} : VerifyGateOperation("G1", "OPEN", d)
    \/ VerifyGateOperation("G1", "CLOSED", 450)
    \/ \E type \in {"TRACK_ALLOCATION", "SIGNAL_CHANGE", "GATE_OPERATION", "TELEPORT"} :
          VerifyDecision(type, [Kwargs EXCEPT !.new_state =
                                   IF type = "GATE_OPERATION" THEN "OPEN" ELSE "GREEN"])

NextVerify ==
    \/ \E l \in TrainLists : SyncSnapshots(l, <<>>, <<>>, <<>>)
    \/ \E l \in TrackLists : SyncSnapshots(<<>>, l, <<>>, <<>>)
    \/ \E l \in SignalLists : SyncSnapshots(<<>>, <<>>, l, <<>>)
    \/ VerifyCalls

SpecVerify == InitAttached /\ [][NextVerify]_vars

\* A caller holding a clone of the twin: edits made through either object
NextClone ==
    \/ /\ ~copy
       /\ \/ \E l \in TrainLists, g \in GateLists : SyncSnapshots(l, <<>>, <<>>, g)
          \/ \E l \in TrackLists : SyncSnapshots(<<>>, l, <<>>, <<>>)
          \/ SyncSnapshots(<<>>, <<>>, <<SnapSignal("S1", "RED")>>, <<>>)
    \/ MakeClone
    \/ \E obj \in {Twin, Copy} :
        \/ EditEntry(obj, "tracks", "P1", "CLEARING")
        \/ EditEntry(obj, "signals", "S1", "YELLOW")
        \/ EditEntry(obj, "gates", "G1", "OPEN")
        \/ UpdateEntry(obj, "tracks", "P2", SnapTrack("P2", "FREE").snap)
        \/ UpdateEntry(obj, "signals", "S1", SnapSignal("S1", "GREEN").snap)
        \/ UpdateEntry(obj, "trains", "T002", SnapTrain("T002", FALSE, 0).snap)
        \/ UpdateEntry(obj, "gates", "G1", SnapGate("G1", "CLOSING", 501).snap)

SpecClone == InitAttached /\ [][NextClone]_vars

\* ------------------------------------------------------------------ claims
TwinView == View(verifier.heap, Twin)

\* C1: with a verifier attached, no override and a sync after every live
\* call, no live signal is GREEN while the live track it is bound to is
\* OCCUPIED.
C1_NoGreenIntoOccupied ==
    \A s \in SignalIds :
        ~(signals[s].state = "GREEN" /\ tracks[signals[s].track_id].state = "OCCUPIED")

\* C2: with a verifier attached and no override, no gate is OPEN while its
\* nearest_train_distance is at or below the danger-zone threshold.
C2_NoOpenGateInDangerZone ==
    \A g \in GateIds :
        ~(gates[g].state = "OPEN" /\ gates[g].nearest_train_distance <= DANGER_ZONE)

\* what a step did to a live signal or gate, and the verify_* call it made
SignalMutated(id) == signals'[id] # signals[id]
GateMutated(id) ==
    gates'[id].state # gates[id].state \/ gates'[id].history # gates[id].history
SafeForSignal(id) ==
    /\ last'.op = "change_signal"
    /\ last'.call = [type |-> "SIGNAL_CHANGE", entity_id |-> id,
                     action |-> signals'[id].state, track_id |-> signals[id].track_id,
                     number |-> 0, result |-> "SAFE"]
    /\ verify_signal_change(verifier, id, signals'[id].state,
                            signals[id].track_id).result = "SAFE"
SafeForGate(id) ==
    /\ last'.op \in {"change_gate", "auto_close_if_needed"}
    /\ last'.call = [type |-> "GATE_OPERATION", entity_id |-> id,
                     action |-> gates'[id].state, track_id |-> None,
                     number |-> gates[id].nearest_train_distance, result |-> "SAFE"]
    /\ verify_gate_operation(verifier, id, gates'[id].state,
                             gates[id].nearest_train_distance).result = "SAFE"

C4_AllocatedIffNotFree ==
    \A id \in TrackIds : (tracks[id].allocated_to # None) <=> (tracks[id].state # "FREE")

C4_Witness ==
    /\ last.op = "clear" /\ last.ok
    /\ tracks["P1"].state = "FREE"
    /\ Len(tracks["P1"].history) = 4
    /\ tracks["P2"].state = "RESERVED"

\* C5: a non-override change_signal / change_gate on a verifier-backed
\* controller sets the entity to new_state and logs VERIFIED if and only if
\* the verifier returns SAFE for that change; on UNSAFE the entity (state and
\* history) is unchanged, the rejection reason is logged and the call returns
\* false with that reason.
C5_CommitIffSafe ==
    [][/\ (attached /\ last'.op = "change_signal" /\ ~last'.override
              /\ last'.id \in SignalIds /\ last'.new_state \in SignalState) =>
               LET id == last'.id
                   new_state == last'.new_state
                   r == verify_signal_change(verifier, id, new_state, signals[id].track_id)
                   committed ==
                       /\ signals'[id].state = new_state
                       /\ signals'[id].history =
                            Append(signals[id].history,
                                   [old_state |-> signals[id].state,
                                    new_state |-> new_state])
                       /\ sig_log' = log_command(sig_log, id, new_state, TRUE,
                                                 Msg("VERIFIED", None, 0))
               IN /\ committed <=> r.result = "SAFE"
                  /\ r.result = "SAFE" => last'.ok
                  /\ r.result = "UNSAFE" =>
                       /\ signals' = signals
                       /\ sig_log' = log_command(sig_log, id, new_state, FALSE, r.reason)
                       /\ ~last'.ok /\ last'.reason = r.reason
       /\ (attached /\ last'.op = "change_gate" /\ ~last'.override
              /\ last'.id \in GateIds /\ last'.new_state \in GateState) =>
               LET id == last'.id
                   new_state == last'.new_state
                   r == verify_gate_operation(verifier, id, new_state,
                                              gates[id].nearest_train_distance)
                   committed ==
                       /\ gates'[id].state = new_state
                       /\ gates'[id].history =
                            Append(gates[id].history,
                                   [old_state |-> gates[id].state, new_state |-> new_state,
                                    nearest_train_distance |->
                                        gates[id].nearest_train_distance])
                       /\ gate_log' = log_command(gate_log, id, new_state, TRUE,
                                                  Msg("VERIFIED", None, 0))
               IN /\ committed <=> r.result = "SAFE"
                  /\ r.result = "SAFE" => last'.ok
                  /\ r.result = "UNSAFE" =>
                       /\ gates' = gates
                       /\ gate_log' = log_command(gate_log, id, new_state, FALSE, r.reason)
                       /\ ~last'.ok /\ last'.reason = r.reason]_vars

C5_Witness ==
    /\ attached
    /\ Len(sig_log) = 2
    /\ sig_log[1].success /\ sig_log[1].reason.text = "VERIFIED"
    /\ ~sig_log[2].success
    /\ last.op = "change_signal" /\ ~last.ok /\ last.call.result = "UNSAFE"

\* C6: change_gate(gate_id, "OPEN", override=true) on an existing gate
\* succeeds at every distance, sets the gate OPEN, logs OVERRIDE and does not
\* call the verifier (verification log and twin unchanged); likewise
\* change_signal with override=true.
C6_OverrideBypasses ==
    [][/\ (last'.op = "change_gate" /\ last'.override /\ last'.id \in GateIds
              /\ last'.new_state = "OPEN") =>
            /\ last'.ok
            /\ gates'[last'.id].state = "OPEN"
            /\ gate_log' = log_command(gate_log, last'.id, "OPEN", TRUE,
                                       Msg("OVERRIDE", None, 0))
            /\ last'.call = NoCall /\ n_calls' = n_calls
            /\ verifier' = verifier
       /\ (last'.op = "change_signal" /\ last'.override /\ last'.id \in SignalIds
              /\ last'.new_state \in SignalState) =>
            /\ last'.ok
            /\ signals'[last'.id].state = last'.new_state
            /\ sig_log' = log_command(sig_log, last'.id, last'.new_state, TRUE,
                                      Msg("OVERRIDE", None, 0))
            /\ last'.call = NoCall /\ n_calls' = n_calls
            /\ verifier' = verifier]_vars

C6_Witness ==
    /\ attached
    /\ last.op = "change_gate" /\ last.override /\ last.ok
    /\ gates["G1"].state = "OPEN"
    /\ gates["G1"].nearest_train_distance <= DANGER_ZONE

VerifyOps == {"verify_track_allocation", "verify_signal_change",
              "verify_gate_operation", "verify_decision"}

\* C7: no verify_* or verify_decision call, whatever its verdict or return
\* branch, changes the verifier's twin_state.
C7_VerifyKeepsTwin ==
    [][last'.op \in VerifyOps => View(verifier'.heap, Twin) = View(verifier.heap, Twin)]_vars

C7_Witness ==
    /\ last.op = "verify_track_allocation" /\ last.call.result = "SAFE"
    /\ "P1" \in DOMAIN TwinView.tracks
    /\ TwinView.tracks["P1"].state = "FREE"

\* C8: edits made through a clone (update_* calls or in-place edits of its
\* entries) leave what the original shows unchanged, and edits made through
\* the original after cloning leave what the clone shows unchanged.
C8_CloneIsolation ==
    [][/\ (edits' = edits + 1 /\ last'.op \in {"edit_copy", "update_copy"}) =>
            View(verifier'.heap, Twin) = View(verifier.heap, Twin)
       /\ (edits' = edits + 1 /\ last'.op \in {"edit_original", "update_original"}) =>
            View(verifier'.heap, Copy) = View(verifier.heap, Copy)]_vars

C8_Witness ==
    /\ copy /\ edits >= 2
    /\ last.op = "edit_copy"
    /\ "P1" \in DOMAIN TwinView.tracks
    /\ View(verifier.heap, Copy).tracks["P1"].state = "CLEARING"
    /\ TwinView.tracks["P1"].state = "RESERVED"

\* C9: after N verify_* calls of which S returned SAFE the statistics report
\* total N, safe S, unsafe N-S and safety_rate 100*S/N, and rate 0 for N = 0.
C9_StatsCountCalls ==
    LET st == get_verification_stats(verifier.log)
    IN /\ st.total_verifications = n_calls
       /\ st.safe = n_safe
       /\ st.unsafe = n_calls - n_safe
       /\ n_calls > 0 => st.safety_rate.num * n_calls = 100 * n_safe * st.safety_rate.den
       /\ n_calls = 0 => st.safety_rate.num = 0

\* the twin with signal_id set to new_state, as the simulation builds it
SimulatedSignals(signal_id, new_state, track_id) ==
    LET cur == TwinView.signals
        entry == IF signal_id \in DOMAIN cur
                 THEN [cur[signal_id] EXCEPT !.state = new_state]
                 ELSE [signal_id |-> signal_id, track_id |-> track_id, state |-> new_state]
    IN Put(cur, signal_id, entry)

\* no signal contradicts its bound track and no track is claimed twice
ConflictFree(sigs) ==
    /\ \A id \in DOMAIN sigs :
         sigs[id].track_id \in DOMAIN TwinView.tracks =>
            LET ts == TwinView.tracks[sigs[id].track_id].state
            IN /\ ts = "OCCUPIED" => sigs[id].state = "RED"
               /\ sigs[id].state = "GREEN" => ts = "RESERVED"
    /\ \A a, b \in DOMAIN TwinView.tracks :
         (a # b /\ Truthy(TwinView.tracks[a].allocated_to)
                /\ Truthy(TwinView.tracks[b].allocated_to)) =>
            TwinView.tracks[a].track_id # TwinView.tracks[b].track_id

\* the step is a verify_signal_change(signal, "GREEN", track) call
GreenCheck ==
    /\ last'.op \in {"verify_signal_change", "verify_decision"}
    /\ last'.call.type = "SIGNAL_CHANGE"
    /\ last'.call.action = "GREEN"

\* C10 as stated: verify_signal_change(signal, GREEN, track) is SAFE whenever
\* the twin's track is RESERVED and UNSAFE whenever it is in any other state.
C10_GreenIffReserved ==
    [][(GreenCheck /\ last'.call.track_id \in DOMAIN TwinView.tracks) =>
          (last'.call.result = "SAFE" <=>
              TwinView.tracks[last'.call.track_id].state = "RESERVED")]_vars

\* C10 amended: it is SAFE exactly when the twin's track is RESERVED and the
\* twin with that signal set to GREEN holds no conflict; UNSAFE otherwise.
C10_GreenIffReservedAndConflictFree ==
    [][GreenCheck =>
          (last'.call.result = "SAFE" <=>
              /\ last'.call.track_id \in DOMAIN TwinView.tracks
              /\ TwinView.tracks[last'.call.track_id].state = "RESERVED"
              /\ ConflictFree(SimulatedSignals(last'.call.entity_id, "GREEN",
                                               last'.call.track_id)))]_vars

C10_Witness ==
    /\ last.op = "verify_signal_change" /\ last.new_state = "GREEN"
    /\ last.call.result = "UNSAFE"
    /\ last.reason.text = "Signal change causes conflicts"
    /\ "P1" \in DOMAIN TwinView.tracks
    /\ TwinView.tracks["P1"].state = "RESERVED"

\* ------------------------------------------------ track allocation verdicts
\* A caller syncing train and track snapshots and asking for P1; a train
\* snapshot carries an eta or, like Train.get_state, none
AllocEtas == {60, 180}
AllocTrainLists == {<<SnapTrain("T002", TRUE, 250)>>, <<SnapTrain("T002", TRUE, 300)>>,
                    <<SnapTrain("T002", FALSE, 0)>>, <<SnapTrain("T001", TRUE, 180)>>}

NextAllocate ==
    \/ \E l \in AllocTrainLists : SyncSnapshots(l, <<>>, <<>>, <<>>)
    \/ \E l \in TrackLists : SyncSnapshots(<<>>, l, <<>>, <<>>)
    \/ \E eta \in AllocEtas : VerifyTrackAllocation("T001", "P1", eta)

SpecAllocate == InitAttached /\ [][NextAllocate]_vars

\* the step is a verify_track_allocation(train, track, eta) call
AllocationCheck ==
    /\ last'.op \in {"verify_track_allocation", "verify_decision"}
    /\ last'.call.type = "TRACK_ALLOCATION"

\* the other trains of the twin whose recorded ETA is within 120 s of eta
TrainsWithin(train_id, eta) ==
    {t \in DOMAIN TwinView.trains \ {train_id} :
        /\ TwinView.trains[t].has_eta
        /\ Abs(eta - TwinView.trains[t].eta) < MIN_SEPARATION}

\* C11: verify_track_allocation(train, track, eta) on a track FREE in the twin
\* is SAFE when no other train of the twin has a recorded ETA within 120 s of
\* eta and UNSAFE when one has; the train's own entry never counts; a track
\* that is not FREE always yields UNSAFE.
C11_TimingVerdict ==
    [][(AllocationCheck /\ last'.call.track_id \in DOMAIN TwinView.tracks) =>
          LET free == TwinView.tracks[last'.call.track_id].state = "FREE"
              near == TrainsWithin(last'.call.entity_id, last'.call.number)
          IN /\ (free /\ near = {}) => last'.call.result = "SAFE"
             /\ (free /\ near # {}) => last'.call.result = "UNSAFE"
             /\ ~free => last'.call.result = "UNSAFE"]_vars

\* ------------------------------------------------------ gate verdicts
\* A caller asking for each gate operation around the danger zone's edge
GateDistances == {DANGER_ZONE - 1, DANGER_ZONE, DANGER_ZONE + 1, INITIAL_DISTANCE}

NextGateVerdict ==
    \/ \E new_state \in GateState, d \in GateDistances :
          VerifyGateOperation("G1", new_state, d)
    \/ \E new_state \in GateState, d \in GateDistances :
          VerifyDecision("GATE_OPERATION",
                         [Kwargs EXCEPT !.new_state = new_state,
                                        !.nearest_train_distance = d])

SpecGateVerdict == InitAttached /\ [][NextGateVerdict]_vars

\* the step is a verify_gate_operation(gate, new_state, d) call
GateCheck ==
    /\ last'.op \in {"verify_gate_operation", "verify_decision"}
    /\ last'.call.type = "GATE_OPERATION"

\* C12: verify_gate_operation(gate, "OPEN", d) is SAFE if and only if d > 500
\* (d = 500 is UNSAFE), and with CLOSING or CLOSED it is SAFE for every d.
C12_GateBoundary ==
    [][GateCheck =>
          /\ last'.call.action = "OPEN" =>
                (last'.call.result = "SAFE" <=> last'.call.number > DANGER_ZONE)
          /\ last'.call.action \in {"CLOSING", "CLOSED"} =>
                last'.call.result = "SAFE"]_vars

C12_Witness ==
    /\ last.op = "verify_gate_operation"
    /\ last.call.action = "OPEN"
    /\ last.call.number = DANGER_ZONE
    /\ last.call.result = "UNSAFE"
    /\ verifier.log # <<>>
    /\ verifier.log[1].action = "CLOSING"

\* ------------------------------------------- post-simulation conflict check
\* the step is a verify_signal_change call
SignalCheck ==
    /\ last'.op \in {"verify_signal_change", "verify_decision"}
    /\ last'.call.type = "SIGNAL_CHANGE"

\* the twin's tracks with the proposed allocation applied
SimulatedTracks(track_id, train_id, eta) ==
    [TwinView.tracks EXCEPT ![track_id] =
        [@ EXCEPT !.state = "RESERVED", !.allocated_to = train_id,
                  !.expected_arrival = eta]]

\* no signal contradicts its bound track and no track is claimed twice
ConflictFreeIn(trks, sigs) ==
    /\ \A id \in DOMAIN sigs :
         (Truthy(sigs[id].track_id) /\ sigs[id].track_id \in DOMAIN trks) =>
            LET ts == trks[sigs[id].track_id].state
            IN /\ ts = "OCCUPIED" => sigs[id].state = "RED"
               /\ sigs[id].state = "GREEN" => ts = "RESERVED"
    /\ \A a, b \in DOMAIN trks :
         (a # b /\ Truthy(trks[a].allocated_to) /\ Truthy(trks[b].allocated_to)) =>
            trks[a].track_id # trks[b].track_id

SafeAllocationIsConflictFree ==
    (AllocationCheck /\ last'.call.result = "SAFE") =>
        ConflictFreeIn(SimulatedTracks(last'.call.track_id, last'.call.entity_id,
                                       last'.call.number),
                       TwinView.signals)

SafeSignalIsConflictFree ==
    (SignalCheck /\ last'.call.result = "SAFE") =>
        ConflictFreeIn(TwinView.tracks,
                       SimulatedSignals(last'.call.entity_id, last'.call.action,
                                        last'.call.track_id))

NothingRecorded ==
    /\ verifier'.log = verifier.log
    /\ View(verifier'.heap, Twin) = TwinView

TrackMissing == last'.call.track_id \notin DOMAIN TwinView.tracks
SignalMissing == last'.call.entity_id \notin DOMAIN TwinView.signals
GateMissing == last'.call.entity_id \notin DOMAIN TwinView.gates

Refused ==
    /\ last'.call.result = "UNSAFE"
    /\ last'.reason # NoMsg
    /\ NothingRecorded

\* C14 as stated: a verification naming a track, signal or gate id that the
\* twin does not hold returns UNSAFE with a reason, appends nothing to the
\* verification log and leaves the twin unchanged.
C14_UnknownIdIsUnsafe ==
    [][/\ (AllocationCheck /\ TrackMissing) => Refused
       /\ (SignalCheck /\ (TrackMissing \/ SignalMissing)) => Refused
       /\ (GateCheck /\ GateMissing) => Refused]_vars

\* C14 amended: an unknown track id is refused with "Track <id> not found",
\* nothing logged, twin unchanged; an unknown signal id is simulated as a new
\* RED signal bound to the named track and verified like a known one; the
\* gate id is never looked up, the distance rule alone decides.
C14_UnknownTrackIsUnsafe ==
    [][/\ ((AllocationCheck \/ SignalCheck) /\ TrackMissing) =>
              /\ Refused
              /\ last'.reason = Msg("Track not found", last'.call.track_id, 0)
       /\ (SignalCheck /\ SignalMissing /\ ~TrackMissing) =>
              /\ last'.call.result = "SAFE" <=>
                    /\ validate_signal_change(last'.call.action,
                                              TwinView.tracks[last'.call.track_id].state)
                    /\ ConflictFreeIn(TwinView.tracks,
                                      SimulatedSignals(last'.call.entity_id,
                                                       last'.call.action,
                                                       last'.call.track_id))
              /\ View(verifier'.heap, Twin) = TwinView
       /\ (GateCheck /\ GateMissing) =>
              (last'.call.result = "UNSAFE" <=>
                  (last'.call.action = "OPEN" /\ last'.call.number <= DANGER_ZONE))]_vars

C14_Witness ==
    /\ last.op = "verify_signal_change"
    /\ last.call.track_id = UnknownId
    /\ last.call.result = "UNSAFE"
    /\ last.reason = Msg("Track not found", UnknownId, 0)
    /\ Len(verifier.log) = 1
    /\ TwinView.tracks # EmptyDict

\* ------------------------------------------------------ verify_decision
KnownDecisions == {"TRACK_ALLOCATION", "SIGNAL_CHANGE", "GATE_OPERATION"}

\* the verdict, reason and verifier a verify_* call leaves behind
Answered(r) ==
    /\ last'.text = r.result
    /\ last'.reason = r.reason
    /\ verifier' = [heap |-> r.heap, log |-> r.log, det |-> r.det]

\* C15: verify_decision with an unknown decision_type returns UNSAFE with the
\* unknown-decision-type message, logs nothing and leaves the twin alone; for
\* the three known types it answers as the corresponding verify_* operation.
C15_VerifyDecisionDispatch ==
    [][last'.op = "verify_decision" =>
          LET type == last'.id
              call == last'.call
          IN /\ type \notin KnownDecisions =>
                   /\ last'.text = "UNSAFE"
                   /\ last'.reason = Msg("Unknown decision type", type, 0)
                   /\ NothingRecorded
             /\ type = "TRACK_ALLOCATION" =>
                   Answered(verify_track_allocation(verifier, call.entity_id,
                                                    call.track_id, call.number))
             /\ type = "SIGNAL_CHANGE" =>
                   Answered(verify_signal_change(verifier, call.entity_id,
                                                 call.action, call.track_id))
             /\ type = "GATE_OPERATION" =>
                   Answered(verify_gate_operation(verifier, call.entity_id,
                                                  call.action, call.number))]_vars

C15_Witness ==
    /\ last.op = "verify_decision"
    /\ last.id \notin KnownDecisions
    /\ last.text = "UNSAFE"
    /\ Len(verifier.log) = 1
    /\ verifier.log[1].decision_type = "SIGNAL_CHANGE"

\* ------------------------------------------------- the integration demo
\* the step is change_signal("S1", "GREEN") without override
GreenCommand ==
    /\ last'.op = "change_signal"
    /\ last'.id = "S1"
    /\ last'.new_state = "GREEN"
    /\ ~last'.override

\* C16: with the twin synced after each live call and P1 FREE, S1 RED:
\* allocate_track("T001", 180) returns "P1" and reserves it; then
\* change_signal("S1", "GREEN") succeeds; then occupy("T001") makes P1
\* OCCUPIED; then change_signal("S1", "GREEN") again is rejected as UNSAFE
\* and leaves S1 as it is.
C16_DemoOrdering ==
    [][/\ (last'.op = "allocate_track" /\ tracks["P1"].state = "FREE") =>
              /\ last'.id = "P1"
              /\ tracks'["P1"].state = "RESERVED"
              /\ tracks'["P1"].allocated_to = CtlTrain
              /\ tracks'["P1"].expected_arrival_time = CtlEta
       /\ (GreenCommand /\ tracks["P1"].state = "RESERVED"
                        /\ signals["S1"].state = "RED") =>
              /\ last'.ok
              /\ last'.call.result = "SAFE"
              /\ signals'["S1"].state = "GREEN"
       /\ (last'.op = "occupy" /\ last'.id = "P1" /\ last'.new_state = CtlTrain
              /\ tracks["P1"].state = "RESERVED"
              /\ tracks["P1"].allocated_to = CtlTrain) =>
              /\ last'.ok
              /\ tracks'["P1"].state = "OCCUPIED"
       /\ (GreenCommand /\ tracks["P1"].state = "OCCUPIED"
                        /\ signals["S1"].state = "GREEN") =>
              /\ ~last'.ok
              /\ last'.call.result = "UNSAFE"
              /\ signals' = signals]_vars

C16_Witness ==
    /\ tracks["P1"].history = <<[state |-> "RESERVED", train_id |-> CtlTrain],
                                [state |-> "OCCUPIED", train_id |-> CtlTrain]>>
    /\ signals["S1"].history = <<[old_state |-> "RED", new_state |-> "GREEN"]>>
    /\ Len(sig_log) = 2
    /\ sig_log[1].success /\ sig_log[1].new_state = "GREEN"
    /\ ~sig_log[2].success /\ sig_log[2].new_state = "GREEN"
    /\ last.op = "change_signal" /\ ~last.ok
    /\ signals["S1"].state = "GREEN"

\* ------------------------------------------------------ track operations
\* C17: reserve(train, eta) on a track that is not FREE returns false and
\* leaves state, allocated_to, expected_arrival and history unchanged; on a
\* FREE track it returns true and sets RESERVED, allocated_to = train,
\* expected_arrival = eta.
C17_ReserveOnlyFree ==
    [][\A id \in TrackIds, train \in TrainIds, eta \in Etas :
          Reserve(id, train, eta, FALSE) =>
             IF tracks[id].state # "FREE"
             THEN ~last'.ok /\ tracks' = tracks
             ELSE /\ last'.ok
                  /\ tracks'[id].state = "RESERVED"
                  /\ tracks'[id].allocated_to = train
                  /\ tracks'[id].expected_arrival_time = eta
                  /\ \A other \in TrackIds \ {id} : tracks'[other] = tracks[other]]_vars

C17_Witness ==
    /\ last.op = "reserve"
    /\ ~last.ok
    /\ tracks[last.id].state = "OCCUPIED"
    /\ tracks[last.id].allocated_to # last.new_state

\* C18: occupy(train) returns true and moves the track to OCCUPIED if and
\* only if the track is RESERVED and allocated_to equals train; otherwise it
\* returns false and no field of the track changes.
C18_OccupyOnlyReservedFor ==
    [][last'.op = "occupy" =>
          LET id == last'.id
              may == /\ tracks[id].state = "RESERVED"
                     /\ tracks[id].allocated_to = last'.new_state
          IN /\ last'.ok <=> may
             /\ may => /\ tracks'[id].state = "OCCUPIED"
                       /\ tracks'[id].allocated_to = tracks[id].allocated_to
             /\ ~may => tracks' = tracks]_vars

C18_Witness ==
    /\ last.op = "occupy"
    /\ ~last.ok
    /\ tracks[last.id].state = "RESERVED"
    /\ tracks[last.id].allocated_to # last.new_state

\* the state changes of the track life cycle and the operation making each
Lifecycle ==
    {<<"FREE", "RESERVED", "reserve">>, <<"FREE", "RESERVED", "allocate_track">>,
     <<"RESERVED", "OCCUPIED", "occupy">>, <<"OCCUPIED", "CLEARING", "start_clearing">>,
     <<"CLEARING", "FREE", "clear">>}

\* C19: the only track state changes are FREE->RESERVED (reserve),
\* RESERVED->OCCUPIED (occupy), OCCUPIED->CLEARING (start_clearing) and
\* CLEARING->FREE (clear); start_clearing and clear in any other state return
\* false and change nothing; clear resets allocated_to and expected_arrival.
C19_TransitionOrder ==
    [][/\ \A id \in TrackIds :
            tracks'[id].state # tracks[id].state =>
               <<tracks[id].state, tracks'[id].state, last'.op>> \in Lifecycle
       /\ (last'.op = "start_clearing" /\ tracks[last'.id].state # "OCCUPIED") =>
               ~last'.ok /\ tracks' = tracks
       /\ (last'.op = "clear" /\ tracks[last'.id].state # "CLEARING") =>
               ~last'.ok /\ tracks' = tracks
       /\ (last'.op = "clear" /\ tracks[last'.id].state = "CLEARING") =>
               /\ last'.ok
               /\ tracks'[last'.id].state = "FREE"
               /\ tracks'[last'.id].allocated_to = None
               /\ tracks'[last'.id].expected_arrival_time = NoTime]_vars

C19_Witness ==
    /\ last.op = "clear"
    /\ last.ok
    /\ Len(tracks[last.id].history) = 4
    /\ tracks[last.id].state = "FREE"
    /\ \E other \in TrackIds : tracks[other].state = "CLEARING"

\* the first track of the manager's order that is FREE, None if there is none
FirstFree ==
    LET free == {i \in DOMAIN TrackOrder : tracks[TrackOrder[i]].state = "FREE"}
    IN IF free = {} THEN None
       ELSE TrackOrder[CHOOSE i \in free : \A j \in free : i <= j]

\* C20: allocate_track(train, eta) reserves exactly the first FREE track of
\* the manager's order and returns its id, every other track unchanged and
\* the free count one less; with no FREE track it returns none and changes
\* nothing; an allocation following an allocation returns another track.
C20_AllocateFirstFree ==
    [][\A train \in TrainIds, eta \in Etas :
          AllocateTrack(train, eta, FALSE) =>
             IF FirstFree = None
             THEN last'.id = None /\ ~last'.ok /\ tracks' = tracks
             ELSE /\ last'.id = FirstFree
                  /\ tracks'[FirstFree].state = "RESERVED"
                  /\ tracks'[FirstFree].allocated_to = train
                  /\ tracks'[FirstFree].expected_arrival_time = eta
                  /\ \A other \in TrackIds \ {FirstFree} : tracks'[other] = tracks[other]
                  /\ get_free_track_count(tracks') = get_free_track_count(tracks) - 1
                  /\ (last.op = "allocate_track" /\ last.ok) => last'.id # last.id]_vars

C20_Witness ==
    /\ last.op = "allocate_track"
    /\ last.id = "P2"
    /\ tracks["P1"].state = "CLEARING"
    /\ tracks["P2"].allocated_to = "T002"

\* C21: the verification log only grows by appending: every step keeps the
\* records it held, in their order, as a prefix of the log; and a verify_*
\* call that returns SAFE appends exactly one record, with result SAFE and
\* that decision's type, entity id and action.
C21_LogAppendOnly ==
    [][/\ Len(verifier'.log) >= Len(verifier.log)
       /\ SubSeq(verifier'.log, 1, Len(verifier.log)) = verifier.log
       /\ last'.call.result = "SAFE" =>
             verifier'.log = Append(verifier.log,
                 [decision_type |-> last'.call.type, entity_id |-> last'.call.entity_id,
                  action |-> last'.call.action, result |-> "SAFE"])]_vars

\* a second SAFE verdict was appended behind an earlier record of another
\* decision type
C21_Witness ==
    /\ last.op \in VerifyOps
    /\ last.call.result = "SAFE"
    /\ Len(verifier.log) = 2
    /\ verifier.log[1].decision_type # verifier.log[2].decision_type
    /\ verifier.log[2].entity_id = last.call.entity_id

\* C22: every change_signal and change_gate call, whatever its outcome,
\* appends exactly one entry with the entity id, the requested state and the
\* outcome to its controller's command log, and no step removes or alters an
\* earlier entry of either log.
C22_CommandAudit ==
    [][/\ SubSeq(sig_log', 1, Len(sig_log)) = sig_log
       /\ SubSeq(gate_log', 1, Len(gate_log)) = gate_log
       /\ last'.op = "change_signal" =>
             /\ Len(sig_log') = Len(sig_log) + 1
             /\ sig_log'[Len(sig_log')].id = last'.id
             /\ sig_log'[Len(sig_log')].new_state = last'.new_state
             /\ sig_log'[Len(sig_log')].success = last'.ok
       /\ last'.op = "change_gate" =>
             /\ Len(gate_log') = Len(gate_log) + 1
             /\ gate_log'[Len(gate_log')].id = last'.id
             /\ gate_log'[Len(gate_log')].new_state = last'.new_state
             /\ gate_log'[Len(gate_log')].success = last'.ok]_vars

\* -------------------------------------------------- twin write discipline
\* Every live operation, none followed by a sync of the caller's own: the
\* twin is refreshed only when the caller chooses to
NextFrame ==
    \/ AllocateTrack(CtlTrain, CtlEta, FALSE)
    \/ Reserve("P1", CtlTrain, CtlEta, FALSE)
    \/ Occupy("P1", CtlTrain, FALSE)
    \/ StartClearing("P1", FALSE)
    \/ Clear("P1", FALSE)
    \/ \E override \in BOOLEAN : ChangeSignal("S1", "GREEN", override, FALSE)
    \/ \E override \in BOOLEAN : ChangeGate("G1", "OPEN", override, FALSE)
    \/ AutoCloseIfNeeded("G1", CtlThreshold, FALSE)
    \/ UpdateTrainProximity("G1", CtlTrain, DANGER_ZONE - 1, FALSE)
    \/ SyncLive(TRUE, TRUE, FALSE)

SpecFrame == InitAttached /\ [][NextFrame]_vars

\* C23: the verifier's twin_state is changed only by sync_state: allocate_track,
\* reserve, occupy, start_clearing, clear, change_signal, change_gate,
\* update_train_proximity and auto_close_if_needed, committed, overridden or
\* refused, all leave what the twin shows unchanged.
C23_TwinWrittenBySyncOnly ==
    [][last'.op # "sync_state" => View(verifier'.heap, Twin) = TwinView]_vars

\* a verified GREEN was committed and the twin still shows the signal RED
C23_Witness ==
    /\ last.op = "change_signal" /\ last.ok /\ last.call.result = "SAFE"
    /\ "S1" \in DOMAIN TwinView.signals
    /\ signals["S1"].state = "GREEN"
    /\ TwinView.signals["S1"].state = "RED"

\* ------------------------------------------------------ sync_state upsert
\* what a sync_state step passing `list` for `kind` does to that kind of the
\* twin: every passed snapshot is the entry of its id, every other entry is
\* as it was, and nothing is removed
Upserted(kind, list) ==
    LET before == TwinView[kind]
        after == View(verifier'.heap, Twin)[kind]
        ids == {list[i].key : i \in DOMAIN list}
    IN /\ DOMAIN after = DOMAIN before \cup ids
       /\ \A i \in DOMAIN list : after[list[i].key] = list[i].snap
       /\ \A id \in DOMAIN before \ ids : after[id] = before[id]

\* C24: sync_state is an upsert by id: for every snapshot passed the twin
\* entry of that id equals the snapshot, every entry whose id is not in the
\* passed lists is unchanged, an empty or omitted list leaves its kind
\* untouched, and no entry is ever removed.
C24_SyncIsUpsert ==
    [][last'.op = "sync_state" =>
          \A trains \in TrainLists \cup {<<>>}, trks \in TrackLists \cup {<<>>},
             sigs \in {<<SnapSignal("S1", "RED")>>, <<>>}, gts \in GateLists \cup {<<>>} :
             verifier' = sync_state(verifier, trains, trks, sigs, gts) =>
                /\ Upserted("trains", trains)
                /\ Upserted("tracks", trks)
                /\ Upserted("signals", sigs)
                /\ Upserted("gates", gts)
                /\ \A k \in Kinds : DOMAIN TwinView[k] \subseteq DOMAIN View(verifier'.heap, Twin)[k]]_vars

\* a sync that passed P1 alone replaced P1 and kept the P2 entry, the train
\* and the gate of earlier syncs
C24_Witness ==
    /\ last.op = "sync_state"
    /\ DOMAIN TwinView.tracks = {"P1", "P2"}
    /\ TwinView.tracks["P1"].state = "FREE"
    /\ TwinView.tracks["P2"].state = "OCCUPIED"
    /\ DOMAIN TwinView.trains # {}
    /\ DOMAIN TwinView.gates # {}
    /\ ~copy

\* ------------------------------------------- signal/track consistency
\* C25: for the twin and for a clone held of it, and for each signal whose
\* bound track exists, check_signal_track_consistency reports one CRITICAL
\* conflict exactly when the track is OCCUPIED and the signal is not RED and
\* one HIGH conflict exactly when the signal is GREEN and the track is not
\* RESERVED; it reports nothing for a signal whose bound track is absent, and
\* detect_all_conflicts holds check_track_conflicts' results followed by these.
C25_SignalTrackConsistency ==
    \A obj \in {Twin} \cup (IF copy THEN {Copy} ELSE {}) :
       LET h == verifier.heap
           view == View(h, obj)
           found == check_signal_track_consistency(h, obj)
           all == detect_all_conflicts(h, obj)
           count(id, sev) == Cardinality({i \in DOMAIN found :
                                 /\ found[i].signal_id = id
                                 /\ found[i].severity = sev
                                 /\ found[i].track_id = view.signals[id].track_id})
       IN /\ \A id \in DOMAIN view.signals :
                LET sig == view.signals[id]
                IN IF sig.track_id \in DOMAIN view.tracks
                   THEN LET ts == view.tracks[sig.track_id].state
                        IN /\ count(id, "CRITICAL")
                                = IF ts = "OCCUPIED" /\ sig.state # "RED" THEN 1 ELSE 0
                           /\ count(id, "HIGH")
                                = IF sig.state = "GREEN" /\ ts # "RESERVED" THEN 1 ELSE 0
                   ELSE \A i \in DOMAIN found : found[i].signal_id # id
          /\ \A i \in DOMAIN found :
                /\ found[i].signal_id \in DOMAIN view.signals
                /\ found[i].severity \in {"CRITICAL", "HIGH"}
          /\ SelectSeq(all, LAMBDA c : c.type = "SIGNAL_TRACK_INCONSISTENCY") = found
          /\ SelectSeq(all, LAMBDA c : c.type # "SIGNAL_TRACK_INCONSISTENCY")
                = check_track_conflicts(h, obj)
          /\ Len(all) = Len(check_track_conflicts(h, obj)) + Len(found)

\* the twin shows S1 GREEN on OCCUPIED P1 and both conflicts are reported
C25_Witness ==
    /\ "S1" \in DOMAIN TwinView.signals /\ TwinView.signals["S1"].state = "GREEN"
    /\ "P1" \in DOMAIN TwinView.tracks /\ TwinView.tracks["P1"].state = "OCCUPIED"
    /\ Len(check_signal_track_consistency(verifier.heap, Twin)) = 2

\* ------------------------------------------- allocation and the verifier
\* The track manager allocating on the live side while the twin holds what
\* callers synced into it
NextCoverage ==
    \/ \E l \in TrainLists : SyncSnapshots(l, <<>>, <<>>, <<>>)
    \/ \E l \in TrackLists : SyncSnapshots(<<>>, l, <<>>, <<>>)
    \/ SyncSnapshots(<<>>, <<>>, <<SnapSignal("S2", "GREEN")>>, <<>>)
    \/ VerifyTrackAllocation(CtlTrain, "P1", CtlEta)
    \/ AllocateTrack(CtlTrain, CtlEta, FALSE)

SpecCoverage == InitAttached /\ [][NextCoverage]_vars

\* C26: allocate_track never consults the verifier: it leaves the verifier,
\* its log and its call count as they were, and reserves the first FREE live
\* track for the train whatever verify_track_allocation would answer for the
\* same train, track and ETA; with no FREE track it changes nothing.
C26_AllocationUnverified ==
    [][last'.op = "allocate_track" =>
          /\ verifier' = verifier
          /\ n_calls' = n_calls
          /\ IF FirstFree = None
             THEN tracks' = tracks /\ last'.id = None
             ELSE /\ last'.id = FirstFree
                  /\ tracks'[FirstFree].state = "RESERVED"
                  /\ tracks'[FirstFree].allocated_to = last'.new_state]_vars

\* P1 was reserved on the live side although the verifier, which had already
\* answered one request, refuses the same allocation for the conflicts the
\* twin holds
C26_Witness ==
    /\ last.op = "allocate_track" /\ last.id = "P1"
    /\ tracks["P1"].state = "RESERVED" /\ tracks["P1"].allocated_to = CtlTrain
    /\ verifier.log # <<>>
    /\ "P1" \in DOMAIN TwinView.tracks /\ TwinView.tracks["P1"].state = "FREE"
    /\ LET out == verify_track_allocation(verifier, CtlTrain, "P1", CtlEta)
       IN out.result = "UNSAFE" /\ out.reason.text = "Conflicts detected"

\* ------------------------------------------------- verify-then-commit race
\* change_signal run as one step with the sync before it, next to
\* change_signal called against whatever the twin was last synced to, the
\* track moving on between the two
NextRace ==
    \/ AllocateTrack(CtlTrain, CtlEta, FALSE)
    \/ Occupy("P1", CtlTrain, FALSE)
    \/ StartClearing("P1", FALSE)
    \/ Clear("P1", FALSE)
    \/ SyncLive(TRUE, TRUE, FALSE)
    \/ \E new_state \in {"GREEN", "RED"} : ChangeSignal("S1", new_state, FALSE, FALSE)
    \/ \E new_state \in {"GREEN", "RED"} : AtomicChangeSignal("S1", new_state)

SpecRace == InitAttached /\ [][NextRace]_vars

\* C27: a GREEN committed by a sync -> verify -> commit sequence run as one
\* step is committed while the live bound track is RESERVED; a GREEN committed
\* by change_signal alone is committed while the track is RESERVED in the twin
\* as last synced, whatever the live track has become since.
C27_GreenCommitNeedsReserved ==
    [][(/\ last'.op \in {"change_signal", "sync_and_change_signal"}
        /\ last'.new_state = "GREEN"
        /\ last'.ok) =>
          /\ signals'[last'.id].state = "GREEN"
          /\ last'.call.result = "SAFE"
          /\ last'.op = "sync_and_change_signal" =>
                tracks[SignalTrack[last'.id]].state = "RESERVED"
          /\ last'.op = "change_signal" =>
                /\ SignalTrack[last'.id] \in DOMAIN TwinView.tracks
                /\ TwinView.tracks[SignalTrack[last'.id]].state = "RESERVED"]_vars

\* the track was occupied after the last sync and GREEN was then committed
\* onto it
C27_Witness ==
    /\ last.op = "change_signal" /\ last.new_state = "GREEN" /\ last.ok
    /\ signals["S1"].state = "GREEN"
    /\ tracks["P1"].state = "OCCUPIED"
    /\ TwinView.tracks["P1"].state = "RESERVED"

\* ------------------------------------------------------------ fail-safe RED
\* C28 as stated: verify_signal_change(signal, "RED", track) returns SAFE in
\* every twin state that holds the named track, whatever the other signals
\* and tracks of the twin are.
C28_RedAlwaysSafe ==
    [][(SignalCheck /\ last'.call.action = "RED" /\ ~TrackMissing) =>
          last'.call.result = "SAFE"]_vars

\* C28 amended: RED passes the signal rule on every state of the named track,
\* and the verdict is SAFE exactly when the twin holds that track and, with
\* this signal set to RED, holds no conflict; a conflict between another
\* signal and its track makes it UNSAFE.
C28_RedSafeIffConflictFree ==
    [][(SignalCheck /\ last'.call.action = "RED") =>
          /\ \A ts \in TrackState : validate_signal_change("RED", ts)
          /\ last'.call.result = "SAFE" <=>
                /\ ~TrackMissing
                /\ ConflictFreeIn(TwinView.tracks,
                                  SimulatedSignals(last'.call.entity_id, "RED",
                                                   last'.call.track_id))]_vars

\* RED for S1 on RESERVED P1 was refused because the twin shows S2 GREEN on
\* OCCUPIED P2
C28_Witness ==
    /\ last.op = "verify_signal_change" /\ last.call.action = "RED"
    /\ last.call.entity_id = "S1" /\ last.call.track_id = "P1"
    /\ last.call.result = "UNSAFE"
    /\ last.reason.text = "Signal change causes conflicts"
    /\ TwinView.tracks["P1"].state = "RESERVED"
    /\ TwinView.signals["S2"].state = "GREEN"
    /\ TwinView.tracks["P2"].state = "OCCUPIED"

\* ------------------------------------------------------ track cycle progress
\* C29: from every reachable state of a track FREE can be reached again, by
\* occupy for the train it is allocated to, then start_clearing, then clear;
\* a RESERVED track leaves RESERVED only by a successful occupy for the train
\* it is allocated to, and until then every call (reserve again, occupy by
\* another train, start_clearing, clear, allocate_track) leaves the track as
\* it is, so it stays non-FREE and allocate_track does not select it.
C29_TrackCycleProgress ==
    /\ [](\A id \in TrackIds :
            \E t1 \in {IF tracks[id].state = "RESERVED"
                       THEN occupy(tracks[id], tracks[id].allocated_to)
                       ELSE [track |-> tracks[id], ok |-> TRUE]} :
            \E t2 \in {IF t1.track.state = "OCCUPIED" THEN start_clearing(t1.track)
                       ELSE t1} :
            \E t3 \in {IF t2.track.state = "CLEARING" THEN clear(t2.track) ELSE t2} :
               /\ t1.ok /\ t2.ok /\ t3.ok
               /\ t3.track.state = "FREE"
               /\ t3.track.allocated_to = None)
    /\ [][\A id \in TrackIds :
             tracks[id].state = "RESERVED" =>
                IF /\ last'.op = "occupy" /\ last'.id = id
                   /\ last'.new_state = tracks[id].allocated_to
                THEN last'.ok /\ tracks'[id].state = "OCCUPIED"
                ELSE /\ tracks'[id] = tracks[id]
                     /\ last'.op = "allocate_track" => last'.id # id]_vars

\* P1 is still reserved for its train after another train's occupy was
\* refused, and an allocation in between went to P2
C29_Witness ==
    /\ last.op = "occupy" /\ ~last.ok /\ last.id = "P1"
    /\ tracks["P1"].state = "RESERVED"
    /\ tracks["P1"].allocated_to # last.new_state
    /\ Len(tracks["P1"].history) = 1
    /\ tracks["P2"].state = "RESERVED"

\* ------------------------------------------- auto-close and the opening rule
\* C30: at every distance at which verify_gate_operation refuses OPEN,
\* auto_close_if_needed with threshold 500 leaves the gate not OPEN, moving an
\* OPEN gate to CLOSING and returning true; at a distance above the
\* threshold, or for a gate already CLOSED, it changes nothing and returns
\* false.
C30_AutoCloseAgreesWithOpening ==
    [][(last'.op = "auto_close_if_needed" /\ last'.id \in DOMAIN gates) =>
          LET g == gates[last'.id]
              refused == verify_gate_operation(verifier, last'.id, "OPEN",
                                               g.nearest_train_distance).result = "UNSAFE"
          IN IF refused /\ g.state # "CLOSED"
             THEN /\ gates'[last'.id].state # "OPEN"
                  /\ g.state = "OPEN" => (gates'[last'.id].state = "CLOSING" /\ last'.ok)
             ELSE gates' = gates /\ ~last'.ok]_vars

====
